---- MODULE Spec2Model ----
(***************************************************************************)
(* esp-hal-common: the general-purpose timers and the watchdogs of the     *)
(* timer groups (timer.rs) and the RTC clock calibration and the RTC       *)
(* watchdogs (rtc_cntl.rs), as a state machine over the memory-mapped      *)
(* registers the drivers read and write.                                   *)
(***************************************************************************)
EXTENDS Integers, Sequences, FiniteSets, TLC

LimbBase == 2^16

\* call by value: evaluate the argument once, then apply
V1(Op(_), a) == CHOOSE r \in {Op(x) : x \in {a}} : TRUE

\* Unsigned integers wider than the model checker's machine integers are sequences of
\* 16-bit limbs, least significant first; arithmetic is modulo 2^(16 * Len).
BZero(n) == [i \in 1..n |-> 0] \o <<>>
BExt(a, n) == [i \in 1..n |-> IF i <= Len(a) THEN a[i] ELSE 0] \o <<>>
BOfInt(x, n) == [i \in 1..n |-> IF i = 1 THEN x % LimbBase
                                 ELSE IF i = 2 THEN (x \div LimbBase) % LimbBase
                                 ELSE 0] \o <<>>
BIsZero(a) == \A i \in 1..Len(a) : a[i] = 0
BOdd(a) == a[1] % 2 = 1
BGt(a, b) == \E k \in 1..Len(a) : a[k] > b[k] /\ \A j \in (k + 1)..Len(a) : a[j] = b[j]
BGe(a, b) == ~BGt(b, a)

BCarry(a, b, i) == \E k \in 1..(i - 1) :
                      a[k] + b[k] >= LimbBase /\ \A j \in (k + 1)..(i - 1) : a[j] + b[j] = LimbBase - 1
BAdd(a, b) == [i \in 1..Len(a) |->
                 (a[i] + b[i] + (IF BCarry(a, b, i) THEN 1 ELSE 0)) % LimbBase] \o <<>>
BBorrow(a, b, i) == \E k \in 1..(i - 1) :
                      a[k] < b[k] /\ \A j \in (k + 1)..(i - 1) : a[j] = b[j]
BSub(a, b) == [i \in 1..Len(a) |->
                 (a[i] - b[i] - (IF BBorrow(a, b, i) THEN 1 ELSE 0) + LimbBase) % LimbBase] \o <<>>
BInc(a) == BAdd(a, BOfInt(1, Len(a)))

BShl(a, k) ==
    [i \in 1..Len(a) |->
       ((IF i - (k \div 16) >= 1 THEN (a[i - (k \div 16)] * 2^(k % 16)) % LimbBase ELSE 0)
        + (IF i - (k \div 16) - 1 >= 1 THEN (a[i - (k \div 16) - 1] * 2^(k % 16)) \div LimbBase ELSE 0))]
    \o <<>>
BShr(a, k) ==
    [i \in 1..Len(a) |->
       ((IF i + (k \div 16) <= Len(a) THEN a[i + (k \div 16)] \div 2^(k % 16) ELSE 0)
        + (IF k % 16 # 0 /\ i + (k \div 16) + 1 <= Len(a)
           THEN (a[i + (k \div 16) + 1] * 2^(16 - (k % 16))) % LimbBase ELSE 0))]
    \o <<>>
BDouble(a) == BShl(a, 1)
BHalf(a) == BShr(a, 1)

\* bit i (1 = least significant) of a
BBit(a, i) == (a[((i - 1) \div 16) + 1] \div 2^((i - 1) % 16)) % 2

\* s = [p, a, b, i]: shift-and-add product, from the top bit of b down
BMulStep(s) ==
    IF s.i = 0 THEN s
    ELSE [s EXCEPT !.p = IF BBit(s.b, s.i) = 1 THEN BAdd(BDouble(s.p), s.a) ELSE BDouble(s.p),
                   !.i = s.i - 1]
BMulIt8(s) ==
    V1(BMulStep, V1(BMulStep, V1(BMulStep, V1(BMulStep,
    V1(BMulStep, V1(BMulStep, V1(BMulStep, V1(BMulStep, s))))))))
BMulIt64(s) ==
    V1(BMulIt8, V1(BMulIt8, V1(BMulIt8, V1(BMulIt8,
    V1(BMulIt8, V1(BMulIt8, V1(BMulIt8, V1(BMulIt8, s))))))))
BMul(a, b) == BMulIt64([p |-> BZero(Len(a)), a |-> a, b |-> b, i |-> 64]).p

\* s = [q, r, a, d, i]: restoring long division, from the top bit of a down
BDivStepR(s, r2) ==
    IF BGe(r2, s.d) THEN [s EXCEPT !.q = BInc(BDouble(s.q)), !.r = BSub(r2, s.d), !.i = s.i - 1]
                    ELSE [s EXCEPT !.q = BDouble(s.q), !.r = r2, !.i = s.i - 1]
BDivStep(s) ==
    IF s.i = 0 THEN s
    ELSE BDivStepR(s, IF BBit(s.a, s.i) = 1 THEN BInc(BDouble(s.r)) ELSE BDouble(s.r))
BDivIt8(s) ==
    V1(BDivStep, V1(BDivStep, V1(BDivStep, V1(BDivStep,
    V1(BDivStep, V1(BDivStep, V1(BDivStep, V1(BDivStep, s))))))))
BDivIt128(s) ==
    V1(BDivIt8, V1(BDivIt8, V1(BDivIt8, V1(BDivIt8,
    V1(BDivIt8, V1(BDivIt8, V1(BDivIt8, V1(BDivIt8,
    V1(BDivIt8, V1(BDivIt8, V1(BDivIt8, V1(BDivIt8,
    V1(BDivIt8, V1(BDivIt8, V1(BDivIt8, V1(BDivIt8, s))))))))))))))))
BDivMod(a, d) ==
    BDivIt128([q |-> BZero(Len(a)), r |-> BZero(Len(a)), a |-> a, d |-> d, i |-> 16 * Len(a)])
BDiv(a, d) == BDivMod(a, d).q
BMod(a, d) == BDivMod(a, d).r

\* number of significant bits
BBits(a) ==
    LET nz == {i \in 1..Len(a) : a[i] # 0}
    IN  IF nz = {} THEN 0
        ELSE LET k == CHOOSE i \in nz : \A j \in nz : j <= i
                 b == CHOOSE n \in 1..16 : 2^(n - 1) <= a[k] /\ a[k] < 2^n
             IN  16 * (k - 1) + b

\* ---- IEEE-754 binary floating point, round to nearest even.
\* A value is [k, m, e]: k = "fin" is m * 2^e with the mantissa m normalised to
\* the format's precision (53 bits for f64, 24 for f32); "zero", "inf" and "nan"
\* carry no mantissa. Only non-negative values occur.
FW == 5
FZero == [k |-> "zero", m |-> BZero(FW), e |-> 0]
FInf == [k |-> "inf", m |-> BZero(FW), e |-> 0]
FNaN == [k |-> "nan", m |-> BZero(FW), e |-> 0]
FFin(m, e) == [k |-> "fin", m |-> m, e |-> e]
FRoundUp(h, rest, k, st) ==
    LET half == BShl(BOfInt(1, FW), k - 1)
    IN  BGt(rest, half) \/ (rest = half /\ (st \/ BOdd(h)))
FCarry(p, r, e) == IF BBits(r) = p + 1 THEN FFin(BHalf(r), e + 1) ELSE FFin(r, e)
FRoundN(p, m, e, st, n) ==
    IF n = 0 THEN FZero
    ELSE IF n <= p THEN FFin(BShl(m, p - n), e - (p - n))
    ELSE LET h == BShr(m, n - p)
         IN  IF FRoundUp(h, BSub(m, BShl(h, n - p)), n - p, st)
             THEN FCarry(p, BInc(h), e + (n - p))
             ELSE FFin(h, e + (n - p))
FRound(p, m, e, st) == FRoundN(p, m, e, st, BBits(m))

\* The division of two mantissas works on 27-bit halves, which the model checker's
\* integers hold: x = h * 2^27 + l.
Half == 2^27
HalfHi(m) == (m[2] \div 2^11) + m[3] * 2^5 + m[4] * 2^21
HalfLo(m) == m[1] + (m[2] % 2^11) * 2^16

\* s = [rh, rl, dh, dl, qh, ql, n]: restoring division, one quotient bit per step;
\* the first 27 quotient bits go to qh, the last 28 to ql
FDivStepQ(s, ge, h, l) ==
    [s EXCEPT !.rh = 2 * h + ((2 * l) \div Half),
              !.rl = (2 * l) % Half,
              !.qh = IF s.n > 28 THEN 2 * s.qh + (IF ge THEN 1 ELSE 0) ELSE s.qh,
              !.ql = IF s.n > 28 THEN s.ql ELSE 2 * s.ql + (IF ge THEN 1 ELSE 0),
              !.n = s.n - 1]
FDivStep(s) ==
    IF s.n = 0 THEN s
    ELSE IF s.rh > s.dh \/ (s.rh = s.dh /\ s.rl >= s.dl)
         THEN IF s.rl >= s.dl THEN FDivStepQ(s, TRUE, s.rh - s.dh, s.rl - s.dl)
                              ELSE FDivStepQ(s, TRUE, s.rh - s.dh - 1, s.rl - s.dl + Half)
         ELSE FDivStepQ(s, FALSE, s.rh, s.rl)
FDivIt8(s) ==
    V1(FDivStep, V1(FDivStep, V1(FDivStep, V1(FDivStep,
    V1(FDivStep, V1(FDivStep, V1(FDivStep, V1(FDivStep, s))))))))
FDivIt64(s) ==
    V1(FDivIt8, V1(FDivIt8, V1(FDivIt8, V1(FDivIt8,
    V1(FDivIt8, V1(FDivIt8, V1(FDivIt8, V1(FDivIt8, s))))))))
\* the 55-bit quotient qh * 2^28 + ql as limbs
FDivQuot(s) ==
    <<s.ql % LimbBase, (s.ql \div LimbBase) + (s.qh % 2^4) * 2^12,
      (s.qh \div 2^4) % LimbBase, s.qh \div 2^20, 0>>
FDivQ(p, s, e) == FRound(p, FDivQuot(s), e, s.rh # 0 \/ s.rl # 0)
\* a / b in the format of precision p: 55 quotient bits and a sticky bit, rounded
FDiv(p, a, b) ==
    IF a.k = "nan" \/ b.k = "nan" THEN FNaN
    ELSE IF a.k = "inf" THEN (IF b.k = "inf" THEN FNaN ELSE FInf)
    ELSE IF b.k = "inf" THEN FZero
    ELSE IF b.k = "zero" THEN (IF a.k = "zero" THEN FNaN ELSE FInf)
    ELSE IF a.k = "zero" THEN FZero
    ELSE FDivQ(p, FDivIt64([rh |-> HalfHi(a.m), rl |-> HalfLo(a.m),
                            dh |-> HalfHi(b.m), dl |-> HalfLo(b.m),
                            qh |-> 0, ql |-> 0, n |-> 55]),
               a.e - b.e - 54)

\* `x as f64`, `x as f32` of an unsigned integer
F64OfU64(x) == FRound(53, BExt(x, FW), 0, FALSE)
F32OfU32(x) == FRound(24, BExt(x, FW), 0, FALSE)
F64Div(a, b) == FDiv(53, a, b)
F32Div(a, b) == FDiv(24, a, b)

\* `f as uN` (n limbs): truncation toward zero, saturating, NaN to 0
FToU(f, p, n) ==
    IF f.k = "nan" \/ f.k = "zero" THEN BZero(n)
    ELSE IF f.k = "inf" \/ f.e + p > 16 * n THEN [i \in 1..n |-> LimbBase - 1] \o <<>>
    ELSE IF f.e >= 0 THEN BExt(BShl(f.m, f.e), n)
    ELSE IF f.e <= -p THEN BZero(n)
    ELSE BExt(BShr(f.m, -f.e), n)
F64ToU64(f) == FToU(f, 53, 4)
F32ToU16(f) == FToU(f, 24, 1)

\* ---- timer.rs: the general-purpose timers of a timer group

Chips == {"esp32", "esp32s2", "esp32s3", "esp32c3"}

\* TimerGroup::new builds timer0 and, except on the esp32c3, timer1
Units(c) == IF c = "esp32c3" THEN {"T0"} ELSE {"T0", "T1"}
\* the timer units of the two register blocks: T0 and T1 are those of TIMG0
TimerRegs == {"T0", "T1", "TIMG1.T0", "TIMG1.T1"}

\* a 32-bit register word and a u64, as limbs
Word(x) == BOfInt(x, 2)
U64(x) == BOfInt(x, 4)

\* Timer0::divider and Timer1::divider of the 16-bit prescale field
Timer0_divider(field) ==
    IF field = 0 THEN 65536
    ELSE IF field = 1 \/ field = 2 THEN 2
    ELSE field
\* a divider without the 1 | 2 arm
divider_no_quirk(field) == IF field = 0 THEN 65536 ELSE field

Timer1_divider(field) ==
    IF field = 0 THEN 65536
    ELSE IF field = 1 \/ field = 2 THEN 2
    ELSE field

\* timeout: u64 microseconds, clock: u32 Hz, divider: u32, all computed in f64
timeout_to_ticks(timeout, clock, divider) ==
    LET micros == timeout
        period == F64Div(F64OfU64(U64(1000000)),
                         F64Div(F64OfU64(clock), F64OfU64(divider)))
    IN  F64ToU64(F64Div(F64OfU64(micros), period))

VARIABLES
    chip,         \* the cargo feature the crate is built with
    apb_clk_freq, \* Timer.apb_clk_freq, Hz
    treg,         \* per timer unit: TxCONFIG fields, alarm, load and counter registers
    tint,         \* INT_RAW_TIMERS and INT_ENA_TIMERS, one bit per unit
    inst,         \* the timer unit the caller's Timer owns
    ret,          \* the last event: a driver call [op, arg, val], or a hardware "tick"
    acc,          \* the register accesses of that call, in order
    halted,       \* the program has panicked
    unclaimed,    \* alarm matches raised by the hardware, less the wait() calls
                  \* that returned Ok (counted up to MaxUnclaimed)
    started,      \* start() has been called
    okCancels,    \* cancel() calls that returned Ok since the last start()
    rwdt,         \* the Rwdt driver object: its four stage actions
    rtc_cntl,     \* the RTC_CNTL register block
    timg,         \* per timer group: the watchdog and the calibration registers
    lastw,        \* per watchdog: its last write-protect write before and after the last call
    efuse,        \* the eFuse block: the multiplier of the RTC watchdog
    cali,         \* the calibration unit of TIMG0: rtc_cali_rdy, rtc_cali_timeout and
                  \* rtc_cali_value, which the hardware sets
    pc,           \* the call of calibrate_internal in progress, when it is followed
                  \* poll by poll: where it is, and its locals
    live          \* the peripheral singletons the caller still holds, the driver
                  \* instances alive per unit, and the raw timer handles given back

tvars == <<apb_clk_freq, treg, tint, inst, ret, acc, halted, unclaimed, started, okCancels>>
wvars == <<rwdt, rtc_cntl, timg, lastw, efuse, cali, pc, live>>

\* one access of a memory-mapped register: a read, or a write of a field
Rd(u, reg) == <<"r", u, reg>>
Wr(u, reg, f, v) == <<"w", u, reg, f, v>>

\* The driver's view while one call runs: s = [t, raw, ena, acc], the timer
\* registers, the two interrupt registers and the accesses made so far.
Log(s, a) == [s EXCEPT !.acc = Append(@, a)]

\* hardware: a write to TxLOAD reloads the counter from TxLOADHI:TxLOADLO
HwReload(r) == [r EXCEPT !.cnt = r.load_lo \o r.load_hi]

reset_counter(s, u) ==
    LET s1 == [Log(s, Wr(u, "loadlo", "load_lo", Word(0))) EXCEPT !.t[u].load_lo = Word(0)]
        s2 == [Log(s1, Wr(u, "loadhi", "load_hi", Word(0))) EXCEPT !.t[u].load_hi = Word(0)]
    IN  [Log(s2, Wr(u, "load", "load", Word(1))) EXCEPT !.t[u] = HwReload(@)]

\* TxCONFIG.modify: a read of the register, then a write with one field changed
set_counter_active(s, u, state) ==
    [Log(Log(s, Rd(u, "config")), Wr(u, "config", "en", state)) EXCEPT !.t[u].en = state]

\* an is_counter_active that reads the alarm enable bit instead
is_counter_active_alarm(s, u) == s.t[u].alarm_en

is_counter_active(s, u) == s.t[u].en

set_counter_decrementing(s, u, decrementing) ==
    [Log(Log(s, Rd(u, "config")), Wr(u, "config", "increase", ~decrementing))
        EXCEPT !.t[u].increase = ~decrementing]

set_auto_reload(s, u, auto_reload) ==
    [Log(Log(s, Rd(u, "config")), Wr(u, "config", "autoreload", auto_reload))
        EXCEPT !.t[u].autoreload = auto_reload]

set_alarm_active(s, u, state) ==
    [Log(Log(s, Rd(u, "config")), Wr(u, "config", "alarm_en", state))
        EXCEPT !.t[u].alarm_en = state]

\* an is_alarm_active that reads the counter enable bit instead
is_alarm_active_en(s, u) == s.t[u].en

is_alarm_active(s, u) == s.t[u].alarm_en

\* value & 0x3F_FFFF_FFFF_FFFF, then the low and the high word
load_alarm_value(s, u, value) ==
    LET low == <<value[1], value[2]>>
        high == <<value[3], value[4] % 2^6>>
        s1 == [Log(s, Wr(u, "alarmlo", "alarm_lo", low)) EXCEPT !.t[u].alarm_lo = low]
    IN  [Log(s1, Wr(u, "alarmhi", "alarm_hi", high)) EXCEPT !.t[u].alarm_hi = high]

\* level_int_en is set on the esp32 and the esp32s2 only
listen(s, u, c) ==
    LET s1 == IF c \in {"esp32", "esp32s2"}
              THEN [Log(Log(s, Rd(u, "config")), Wr(u, "config", "level_int_en", TRUE))
                       EXCEPT !.t[u].level_int_en = TRUE]
              ELSE s
    IN  [Log(Log(s1, Rd(u, "int_ena_timers")), Wr(u, "int_ena_timers", "int_ena", TRUE))
            EXCEPT !.ena[u] = TRUE]

\* unlisten as it would be with INT_ENA_TIMERS written instead of modified
unlisten_writing(s, u) ==
    [Log(s, Wr(u, "int_ena_timers", "int_ena", FALSE))
        EXCEPT !.ena = [x \in DOMAIN @ |-> FALSE]]

unlisten(s, u) ==
    [Log(Log(s, Rd(u, "int_ena_timers")), Wr(u, "int_ena_timers", "int_ena", FALSE))
        EXCEPT !.ena[u] = FALSE]

\* a clear_interrupt that writes INT_CLR_TIMERS with no bit set
clear_interrupt_nobit(s, u) == Log(s, Wr(u, "int_clr_timers", "int_clr", FALSE))

\* INT_CLR_TIMERS.write with the unit's bit set: the hardware clears its raw bit
clear_interrupt(s, u) ==
    [Log(s, Wr(u, "int_clr_timers", "int_clr", TRUE)) EXCEPT !.raw[u] = FALSE]

\* TxUPDATE.write latches the counter, which TxLO and TxHI then return
read_raw(s, u) ==
    [s |-> Log(Log(Log(s, Wr(u, "update", "bits", Word(0))), Rd(u, "lo")), Rd(u, "hi")),
     val |-> s.t[u].cnt]

divider(s, u) ==
    IF u \in {"T0", "TIMG1.T0"} THEN Timer0_divider(s.t[u].divider)
    ELSE Timer1_divider(s.t[u].divider)

is_interrupt_set(s, u) == s.raw[u]

\* ---- CountDown, Cancel for Timer<T>

\* start as it would be with the counter enabled before it is set up
Timer_start_enabling_first(s, u, timeout, clk) ==
    LET s1 == set_counter_active(s, u, FALSE)
        s2 == set_alarm_active(s1, u, FALSE)
        s3 == set_counter_active(s2, u, TRUE)
        s4 == reset_counter(s3, u)
        ticks == timeout_to_ticks(timeout, U64(clk), U64(divider(s4, u)))
        s5 == load_alarm_value(Log(s4, Rd(u, "config")), u, ticks)
        s6 == set_counter_decrementing(s5, u, FALSE)
        s7 == set_auto_reload(s6, u, TRUE)
    IN  set_alarm_active(s7, u, TRUE)

Timer_start(s, u, timeout, clk) ==
    LET s1 == set_counter_active(s, u, FALSE)
        s2 == set_alarm_active(s1, u, FALSE)
        s3 == reset_counter(s2, u)
        ticks == timeout_to_ticks(timeout, U64(clk), U64(divider(s3, u)))
        s4 == load_alarm_value(Log(s3, Rd(u, "config")), u, ticks)
        s5 == set_counter_decrementing(s4, u, FALSE)
        s6 == set_auto_reload(s5, u, TRUE)
        s7 == set_counter_active(s6, u, TRUE)
    IN  set_alarm_active(s7, u, TRUE)

\* wait as it would be without set_alarm_active(true) after the flag is cleared
Timer_wait_leaving_alarm(s, u) ==
    LET s1 == Log(s, Rd(u, "config"))
        s2 == Log(s1, Rd(u, "int_raw_timers"))
    IN  IF ~s.t[u].en THEN [s |-> s1, val |-> "panic"]
        ELSE IF is_interrupt_set(s1, u)
             THEN [s |-> clear_interrupt(s2, u), val |-> "Ok"]
             ELSE [s |-> s2, val |-> "WouldBlock"]

\* a wait that polls the interrupt flag before it checks the counter
Timer_wait_flagfirst(s, u) ==
    LET s1 == Log(s, Rd(u, "int_raw_timers"))
        s2 == Log(s1, Rd(u, "config"))
    IN  IF is_interrupt_set(s, u)
        THEN [s |-> set_alarm_active(clear_interrupt(s1, u), u, TRUE), val |-> "Ok"]
        ELSE IF ~s.t[u].en THEN [s |-> s2, val |-> "panic"]
        ELSE [s |-> s2, val |-> "WouldBlock"]

Timer_wait(s, u) ==
    LET s1 == Log(s, Rd(u, "config"))
        s2 == Log(s1, Rd(u, "int_raw_timers"))
    IN  IF ~is_counter_active(s, u) THEN [s |-> s1, val |-> "panic"]
        ELSE IF is_interrupt_set(s1, u)
             THEN [s |-> set_alarm_active(clear_interrupt(s2, u), u, TRUE), val |-> "Ok"]
             ELSE [s |-> s2, val |-> "WouldBlock"]

Timer_cancel(s, u) ==
    LET s1 == Log(s, Rd(u, "config"))
        s2 == Log(s1, Rd(u, "config"))
    IN  IF ~is_counter_active(s, u) THEN [s |-> s1, val |-> "TimerInactive"]
        ELSE IF ~is_alarm_active(s1, u) THEN [s |-> s2, val |-> "AlarmInactive"]
        ELSE [s |-> set_counter_active(s2, u, FALSE), val |-> "Ok"]

\* ---- the timer state machine

\* the timeouts in microseconds the caller passes, the largest counter value
\* explored, and the count at which unclaimed saturates
MaxCount == 4
MaxUnclaimed == 2
Timeouts == {U64(1000), U64(1500)}

NoArg == <<>>
Entry == [t |-> treg, raw |-> tint.raw, ena |-> tint.ena, acc |-> <<>>]
Return(s, op, arg, val) ==
    /\ \E t \in {s} :
          /\ treg' = t.t
          /\ tint' = [raw |-> t.raw, ena |-> t.ena]
          /\ acc' = t.acc
    /\ ret' = [op |-> op, arg |-> arg, val |-> val]

Start(timeout) ==
    /\ ~halted
    /\ Return(Timer_start(Entry, inst, timeout, apb_clk_freq), "start", timeout, "Unit")
    /\ started' = TRUE
    /\ okCancels' = 0
    /\ UNCHANGED <<wvars, chip, apb_clk_freq, inst, halted, unclaimed>>

\* Instance::load_alarm_value called on the caller's unit: value is a u64
LoadAlarmValue(value) ==
    /\ ~halted
    /\ Return(load_alarm_value(Entry, inst, value), "load_alarm_value", value, "Unit")
    /\ UNCHANGED <<wvars, chip, apb_clk_freq, inst, halted, unclaimed, started, okCancels>>

Wait ==
    /\ ~halted
    /\ LET r == Timer_wait(Entry, inst)
       IN  /\ Return(r.s, "wait", NoArg, r.val)
           /\ halted' = (r.val = "panic")
           /\ unclaimed' = IF r.val = "Ok" /\ unclaimed >= 0 THEN unclaimed - 1 ELSE unclaimed
    /\ UNCHANGED <<wvars, chip, apb_clk_freq, inst, started, okCancels>>

Cancel ==
    /\ ~halted
    /\ LET r == Timer_cancel(Entry, inst)
       IN  /\ Return(r.s, "cancel", NoArg, r.val)
           /\ okCancels' = IF r.val # "Ok" THEN okCancels
                           ELSE IF okCancels < 2 THEN okCancels + 1 ELSE 2
    /\ UNCHANGED <<wvars, chip, apb_clk_freq, inst, halted, unclaimed, started>>

Listen ==
    /\ ~halted
    /\ Return(listen(Entry, inst, chip), "listen", NoArg, "Unit")
    /\ UNCHANGED <<wvars, chip, apb_clk_freq, inst, halted, unclaimed, started, okCancels>>

Unlisten ==
    /\ ~halted
    /\ Return(unlisten(Entry, inst), "unlisten", NoArg, "Unit")
    /\ UNCHANGED <<wvars, chip, apb_clk_freq, inst, halted, unclaimed, started, okCancels>>

ClearInterrupt ==
    /\ ~halted
    /\ Return(clear_interrupt(Entry, inst), "clear_interrupt", NoArg, "Unit")
    /\ UNCHANGED <<wvars, chip, apb_clk_freq, inst, halted, unclaimed, started, okCancels>>

ReadRaw ==
    /\ ~halted
    /\ LET r == read_raw(Entry, inst)
       IN  Return(r.s, "read_raw", NoArg, r.val)
    /\ UNCHANGED <<wvars, chip, apb_clk_freq, inst, halted, unclaimed, started, okCancels>>

\* the caller turns to the other of its two timers
Switch(u) ==
    /\ ~halted
    /\ u # inst
    /\ inst' = u
    /\ ret' = [op |-> "switch", arg |-> NoArg, val |-> "Unit"]
    /\ acc' = <<>>
    /\ UNCHANGED <<wvars, chip, apb_clk_freq, treg, tint, halted, unclaimed, started, okCancels>>

\* hardware: an enabled counter advances by one prescaled clock
Counted(r) == IF r.increase THEN BInc(r.cnt) ELSE BSub(r.cnt, U64(1))
AlarmAt(r) == r.alarm_en /\ Counted(r) = r.alarm_lo \o r.alarm_hi
CanCount(r) == r.en /\ BGt(U64(MaxCount), r.cnt)

Tick == [op |-> "tick", arg |-> NoArg, val |-> "Unit"]

HwCount(u) ==
    /\ CanCount(treg[u]) /\ ~AlarmAt(treg[u])
    /\ treg' = [treg EXCEPT ![u].cnt = Counted(treg[u])]
    /\ ret' = Tick
    /\ acc' = <<>>
    /\ UNCHANGED <<wvars, chip, apb_clk_freq, tint, inst, halted, unclaimed, started, okCancels>>

\* hardware: the counter reaches the alarm value: the raw interrupt bit is set, the
\* counter reloads under autoreload, and the alarm is disarmed or stays armed
HwAlarm(u, disarm) ==
    /\ CanCount(treg[u]) /\ AlarmAt(treg[u])
    /\ treg' = [treg EXCEPT ![u].cnt = IF treg[u].autoreload
                                        THEN treg[u].load_lo \o treg[u].load_hi
                                        ELSE Counted(treg[u]),
                            ![u].alarm_en = ~disarm]
    /\ tint' = [tint EXCEPT !.raw[u] = TRUE]
    /\ unclaimed' = IF unclaimed < MaxUnclaimed THEN unclaimed + 1 ELSE unclaimed
    /\ ret' = Tick
    /\ acc' = <<>>
    /\ UNCHANGED <<wvars, chip, apb_clk_freq, inst, halted, started, okCancels>>

\* hardware: an enabled up-counter that has passed its alarm value, or whose alarm
\* is disabled, runs on through its last value and starts over from 0; the alarm
\* value, when the alarm is enabled, is not among the values it passes
HwWrap(u) ==
    /\ treg[u].en /\ treg[u].increase
    /\ ~BGt(U64(MaxCount), treg[u].cnt)
    /\ \/ ~treg[u].alarm_en
       \/ /\ treg[u].alarm_lo \o treg[u].alarm_hi # U64(0)
          /\ ~BGt(treg[u].alarm_lo \o treg[u].alarm_hi, treg[u].cnt)
    /\ treg' = [treg EXCEPT ![u].cnt = U64(0)]
    /\ ret' = Tick
    /\ acc' = <<>>
    /\ UNCHANGED <<wvars, chip, apb_clk_freq, tint, inst, halted, unclaimed, started, okCancels>>

\* TxCONFIG and the other registers of a unit out of reset, with the prescale
\* field as it was left before the driver was built
TimerReset(field) ==
    [en |-> FALSE, alarm_en |-> FALSE, increase |-> TRUE, autoreload |-> TRUE,
     level_int_en |-> FALSE, divider |-> field,
     alarm_lo |-> Word(0), alarm_hi |-> Word(0),
     load_lo |-> Word(0), load_hi |-> Word(0), cnt |-> U64(0)]

\* TimerGroup::new and Timer::new touch no register
TimerBoot(chips, clocks, fields) ==
    /\ chip \in chips
    /\ apb_clk_freq \in clocks
    /\ inst \in Units(chip)
    /\ \E field \in fields : treg = [u \in TimerRegs |-> TimerReset(field)]
    /\ tint = [raw |-> [u \in TimerRegs |-> FALSE], ena |-> [u \in TimerRegs |-> FALSE]]
    /\ acc = <<>>
    /\ halted = FALSE
    /\ unclaimed = 0
    /\ started = FALSE
    /\ okCancels = 0
TimerNew(chips, clocks, fields) ==
    /\ TimerBoot(chips, clocks, fields)
    /\ ret = [op |-> "new", arg |-> NoArg, val |-> "Unit"]

\* ---- rtc_cntl.rs, timer.rs: the watchdogs

\* the unlock keys 0x50D8_3AA1 and 0x8F1D_312A as 32-bit words; zero locks
RwdtKey == <<15009, 20696>>
SwdKey == <<12586, 36637>>
WdtKey == <<15009, 20696>>
Locked == Word(0)

RwdtStageActionOff == 0
RwdtStageActionInterrupt == 1
RwdtStageActionResetRtc == 4

\* The driver's view while one call runs: s = [rtc, tg, rwdt, cali, acc], the
\* RTC_CNTL block, the timer group blocks, the Rwdt object, the status of the
\* calibration unit and the accesses made so far. An access is a read of a register, a write of a register's new value,
\* a busy-wait, or a polling loop that went round n times.
RegRd(blk, reg) == <<"r", blk, reg>>
RegWr(blk, reg, v) == <<"w", blk, reg, v>>
Delay(us) == <<"delay", us>>
Repeat(n, body) == <<"repeat", n, body>>

RegOf(s, blk, reg) == IF blk = "rtc_cntl" THEN s.rtc[reg] ELSE s.tg[blk][reg]

\* hardware: the write-protect register that guards a register, and its key
Guard(blk, reg) ==
    IF blk = "rtc_cntl" /\ reg \in {"wdtconfig0", "wdtconfig1", "wdtfeed"}
        THEN [reg |-> "wdtwprotect", key |-> RwdtKey]
    ELSE IF blk = "rtc_cntl" /\ reg = "swd_conf"
        THEN [reg |-> "swd_wprotect", key |-> SwdKey]
    ELSE IF blk # "rtc_cntl" /\ reg \in {"wdtconfig0", "wdtconfig1", "wdtconfig2", "wdtfeed"}
        THEN [reg |-> "wdtwprotect", key |-> WdtKey]
    ELSE [reg |-> "none", key |-> Locked]

\* hardware: a write to a guarded register is dropped unless the guard holds the
\* key; wdtfeed and int_clr are triggers that keep no value (int_clr, int_ena and
\* int_st stand for int_clr_rtc, int_ena_rtc and int_st_rtc off the ESP32)
WriteReg(s, blk, reg, v) ==
    IF Guard(blk, reg).reg # "none" /\ RegOf(s, blk, Guard(blk, reg).reg) # Guard(blk, reg).key
        THEN Log(s, RegWr(blk, reg, v))
    ELSE IF reg = "wdtfeed" THEN Log(s, RegWr(blk, reg, v))
    ELSE IF reg = "int_clr"
        THEN [s EXCEPT !.acc = Append(@, RegWr(blk, reg, v)),
                       !.rtc.int_raw.wdt_int_raw = IF v.wdt_int_clr THEN FALSE ELSE @]
    ELSE IF blk = "rtc_cntl"
        THEN [s EXCEPT !.acc = Append(@, RegWr(blk, reg, v)), !.rtc[reg] = v]
    ELSE [s EXCEPT !.acc = Append(@, RegWr(blk, reg, v)), !.tg[blk][reg] = v]
ReadReg(s, blk, reg) == Log(s, RegRd(blk, reg))
\* reg.modify(|r, w| ...): a read, then a write of the value read with the
\* fields of upd changed
Modified(old, upd) == [f \in DOMAIN old |-> IF f \in DOMAIN upd THEN upd[f] ELSE old[f]]
ModifyReg(s, blk, reg, upd) ==
    WriteReg(ReadReg(s, blk, reg), blk, reg, Modified(RegOf(s, blk, reg), upd))
ModifyRegIf(cond, s, blk, reg, upd) == IF cond THEN ModifyReg(s, blk, reg, upd) ELSE s

\* set_write_protection as it would be with the polarity of the flag turned round
Rwdt_set_write_protection_inverted(s, enable) ==
    WriteReg(s, "rtc_cntl", "wdtwprotect", IF enable THEN RwdtKey ELSE Locked)

Rwdt_set_write_protection(s, enable) ==
    WriteReg(s, "rtc_cntl", "wdtwprotect", IF enable THEN Locked ELSE RwdtKey)

\* wdtconfig0.modify(..) with the stage 0 action of the object
Rwdt_write_stg0(s) ==
    ModifyReg(s, "rtc_cntl", "wdtconfig0", [wdt_stg0 |-> s.rwdt.stg0_action])

Rwdt_listen(s) ==
    LET s1 == [s EXCEPT !.rwdt.stg0_action = RwdtStageActionInterrupt]
        s2 == Rwdt_set_write_protection(s1, FALSE)
        s3 == Rwdt_write_stg0(s2)
        s4 == ModifyReg(s3, "rtc_cntl", "int_ena", [wdt_int_ena |-> TRUE])
    IN  Rwdt_set_write_protection(s4, TRUE)

\* an unlisten that leaves the interrupt unmasked
Rwdt_unlisten_unmasked(s) ==
    LET s1 == [s EXCEPT !.rwdt.stg0_action = RwdtStageActionResetRtc]
        s2 == Rwdt_set_write_protection(s1, FALSE)
        s3 == Rwdt_write_stg0(s2)
    IN  Rwdt_set_write_protection(s3, TRUE)

Rwdt_unlisten(s) ==
    LET s1 == [s EXCEPT !.rwdt.stg0_action = RwdtStageActionResetRtc]
        s2 == Rwdt_set_write_protection(s1, FALSE)
        s3 == Rwdt_write_stg0(s2)
        s4 == ModifyReg(s3, "rtc_cntl", "int_ena", [wdt_int_ena |-> FALSE])
    IN  Rwdt_set_write_protection(s4, TRUE)

Rwdt_clear_interrupt(s) ==
    LET s1 == Rwdt_set_write_protection(s, FALSE)
        s2 == WriteReg(s1, "rtc_cntl", "int_clr", [wdt_int_clr |-> TRUE])
    IN  Rwdt_set_write_protection(s2, TRUE)

\* int_st is the raw bit masked by the enable bit
Rwdt_is_interrupt_set(s) ==
    [s |-> ReadReg(s, "rtc_cntl", "int_st"),
     val |-> s.rtc.int_raw.wdt_int_raw /\ s.rtc.int_ena.wdt_int_ena]

\* a disable that writes the whole of wdtconfig0 as zero
Rwdt_disable_zeroing(s) ==
    LET s1 == Rwdt_set_write_protection(s, FALSE)
        s2 == ModifyReg(s1, "rtc_cntl", "wdtconfig0",
                        [wdt_en |-> FALSE, wdt_flashboot_mod_en |-> FALSE, wdt_stg0 |-> 0,
                         wdt_stg1 |-> 0, wdt_stg2 |-> 0, wdt_stg3 |-> 0])
    IN  Rwdt_set_write_protection(s2, TRUE)

Rwdt_disable(s) ==
    LET s1 == Rwdt_set_write_protection(s, FALSE)
        s2 == ModifyReg(s1, "rtc_cntl", "wdtconfig0",
                        [wdt_en |-> FALSE, wdt_flashboot_mod_en |-> FALSE])
    IN  Rwdt_set_write_protection(s2, TRUE)

\* a feed that also switches stage 0 off
Rwdt_feed_restaging(s) ==
    LET s1 == Rwdt_set_write_protection(s, FALSE)
        s2 == WriteReg(s1, "rtc_cntl", "wdtfeed", Word(1))
        s3 == ModifyReg(s2, "rtc_cntl", "wdtconfig0", [wdt_stg0 |-> RwdtStageActionOff])
    IN  Rwdt_set_write_protection(s3, TRUE)

Rwdt_feed(s) ==
    LET s1 == Rwdt_set_write_protection(s, FALSE)
        s2 == WriteReg(s1, "rtc_cntl", "wdtfeed", Word(1))
    IN  Rwdt_set_write_protection(s2, TRUE)

\* set_write_protection as it would be with the main watchdog's key
Swd_set_write_protection_mainkey(s, enable) ==
    WriteReg(s, "rtc_cntl", "swd_wprotect", IF enable THEN Locked ELSE RwdtKey)

Swd_set_write_protection(s, enable) ==
    WriteReg(s, "rtc_cntl", "swd_wprotect", IF enable THEN Locked ELSE SwdKey)

\* swd_conf.write(..): the register's reset value with the auto-feed bit set
Swd_disable(s) ==
    LET s1 == Swd_set_write_protection(s, FALSE)
        s2 == WriteReg(s1, "rtc_cntl", "swd_conf", [swd_auto_feed_en |-> TRUE])
    IN  Swd_set_write_protection(s2, TRUE)

\* TIMGn.WDTCONFIG0 out of reset, and all zero
WdtConfig0Reset ==
    [wdt_en |-> FALSE, wdt_stg0 |-> 0, wdt_stg1 |-> 0, wdt_stg2 |-> 0, wdt_stg3 |-> 0,
     wdt_cpu_reset_length |-> 1, wdt_sys_reset_length |-> 1,
     wdt_flashboot_mod_en |-> TRUE, wdt_conf_update_en |-> FALSE]
WdtConfig0Zero ==
    [wdt_en |-> FALSE, wdt_stg0 |-> 0, wdt_stg1 |-> 0, wdt_stg2 |-> 0, wdt_stg3 |-> 0,
     wdt_cpu_reset_length |-> 0, wdt_sys_reset_length |-> 0,
     wdt_flashboot_mod_en |-> FALSE, wdt_conf_update_en |-> FALSE]

Wdt_set_wdt_enabled(s, g, enabled) ==
    LET s1 == WriteReg(s, g, "wdtwprotect", WdtKey)
        s2 == WriteReg(s1, g, "wdtconfig0",
                       IF ~enabled THEN WdtConfig0Zero ELSE [WdtConfig0Reset EXCEPT !.wdt_en = TRUE])
    IN  WriteReg(s2, g, "wdtwprotect", Locked)

\* feed as it would be with the feed written before the unlock
Wdt_feed_early(s, g) ==
    LET s1 == WriteReg(s, g, "wdtfeed", Word(1))
        s2 == WriteReg(s1, g, "wdtwprotect", WdtKey)
    IN  WriteReg(s2, g, "wdtwprotect", Locked)

Wdt_feed(s, g) ==
    LET s1 == WriteReg(s, g, "wdtwprotect", WdtKey)
        s2 == WriteReg(s1, g, "wdtfeed", Word(1))
    IN  WriteReg(s2, g, "wdtwprotect", Locked)

\* timeout in microseconds, a u64
Wdt_set_timeout(s, g, timeout, c) ==
    LET timeout_raw == BExt(BDiv(BMul(BMul(timeout, U64(1000)), U64(10)), U64(125)), 2)
        s1 == WriteReg(s, g, "wdtwprotect", WdtKey)
        s2 == WriteReg(s1, g, "wdtconfig1", [wdt_clk_prescale |-> 1])
        s3 == WriteReg(s2, g, "wdtconfig2", [wdt_stg0_hold |-> timeout_raw])
        s4 == WriteReg(s3, g, "wdtconfig0",
                       [WdtConfig0Reset EXCEPT !.wdt_en = TRUE, !.wdt_stg0 = 3,
                                               !.wdt_cpu_reset_length = 1,
                                               !.wdt_sys_reset_length = 1,
                                               !.wdt_stg1 = 0, !.wdt_stg2 = 0, !.wdt_stg3 = 0])
        s5 == ModifyRegIf(c = "esp32c3", s4, g, "wdtconfig0", [wdt_conf_update_en |-> TRUE])
    IN  WriteReg(s5, g, "wdtwprotect", Locked)

\* ---- rtc_cntl.rs: the RTC clock

\* RtcSlowClock and RtcCalSel
RtcSlowClockRtc == 0
RtcSlowClock32kXtal == 1
RtcSlowClock8mD256 == 2
RtcCalRtcMux == 0
RtcCal8mD256 == 1
RtcCal32kXtal == 2
RtcCalInternalOsc == 3

\* <RtcSlowClock as Clock>::frequency, in Hz
RtcSlowClock_frequency(c, clk) ==
    IF clk = RtcSlowClockRtc
        THEN (IF c = "esp32" THEN 150000 ELSE IF c = "esp32s2" THEN 90000 ELSE 136000)
    ELSE IF clk = RtcSlowClock32kXtal THEN 32768
    ELSE IF c \in {"esp32", "esp32s2"} THEN 8500000 \div 256 ELSE 17500000 \div 256

\* the XtalClock is held as its frequency in MHz, which is what XtalClock::mhz
\* gives back
get_xtal_freq(s) ==
    LET xtal_freq_reg == s.rtc.store4
        clk_val_is_valid == /\ xtal_freq_reg[1] = xtal_freq_reg[2]
                            /\ xtal_freq_reg # Word(0)
                            /\ xtal_freq_reg # <<LimbBase - 1, LimbBase - 1>>
    IN  [s |-> ReadReg(s, "rtc_cntl", "store4"),
         val |-> IF ~clk_val_is_valid THEN 40 ELSE xtal_freq_reg[1]]

\* the field holds 0..3; 3 is the unreachable!() arm
get_slow_freq(s) ==
    [s |-> ReadReg(s, "rtc_cntl", "clk_conf"),
     val |-> s.rtc.clk_conf.ana_clk_rtc_sel,
     panic |-> s.rtc.clk_conf.ana_clk_rtc_sel \notin {0, 1, 2}]

\* hardware: what the calibration unit of TIMG0 does during one call, hw =
\* [prev_rdy, idle, rdy, value]: how a calibration still running ends, how many
\* times the driver polls in vain, and whether the unit then reports a count or
\* a timeout. The ESP32 has no timeout bit: the driver counts microseconds.
Poll(s, c, idle, rdy, value_read) ==
    [s EXCEPT !.acc =
        @ \o <<Repeat(idle, <<RegRd("timg0", "rtccalicfg"),
                              IF c = "esp32" THEN Delay(1) ELSE RegRd("timg0", "rtccalicfg2")>>),
               RegRd("timg0", "rtccalicfg")>>
          \o (IF rdy /\ value_read THEN <<RegRd("timg0", "rtccalicfg1")>>
              ELSE IF ~rdy /\ c # "esp32" THEN <<RegRd("timg0", "rtccalicfg2")>>
              ELSE <<>>)]

\* calibrate_internal, lines 275-294: wait for a calibration that is still running
calibrate_wait_last(s, c, hw) ==
    IF c = "esp32" THEN s
    ELSE IF ~s.tg.timg0.rtccalicfg.rtc_cali_start_cycling THEN ReadReg(s, "timg0", "rtccalicfg")
    ELSE Poll(ModifyReg(ReadReg(s, "timg0", "rtccalicfg"), "timg0", "rtccalicfg2",
                        [rtc_cali_timeout_thres |-> 1]),
              c, hw.idle, hw.prev_rdy, FALSE)

\* calibrate_internal, lines 257-383: cal is the clock to measure
calibrate_measure(s, c, cal, slowclk_cycles, hw) ==
    LET dig_32k_xtal_enabled == s.rtc.clk_conf.dig_xtal32k_en
        expected_freq == IF cal = RtcCal32kXtal THEN RtcSlowClock32kXtal
                         ELSE IF cal = RtcCal8mD256 THEN RtcSlowClock8mD256
                         ELSE RtcSlowClockRtc
        us_time_estimate == (slowclk_cycles * 1000000) \div RtcSlowClock_frequency(c, expected_freq)
        s1 == ReadReg(s, "rtc_cntl", "clk_conf")
        s2 == ModifyRegIf(cal = RtcCal32kXtal /\ ~dig_32k_xtal_enabled, s1,
                          "rtc_cntl", "clk_conf", [dig_xtal32k_en |-> TRUE])
        s3 == ModifyRegIf(cal = RtcCal8mD256, s2,
                          "rtc_cntl", "clk_conf", [dig_clk8m_d256_en |-> TRUE])
        s4 == calibrate_wait_last(s3, c, hw)
        s5 == ModifyReg(s4, "timg0", "rtccalicfg",
                        [rtc_cali_clk_sel |-> cal, rtc_cali_start_cycling |-> FALSE,
                         rtc_cali_max |-> slowclk_cycles % 2^16])
        s6 == ModifyRegIf(c # "esp32", s5, "timg0", "rtccalicfg2",
                          [rtc_cali_timeout_thres |->
                              slowclk_cycles * (IF cal \in {RtcCal32kXtal, RtcCal8mD256}
                                                THEN 2^12 ELSE 2^10)])
        s7 == ModifyReg(s6, "timg0", "rtccalicfg", [rtc_cali_start |-> TRUE])
        s8 == Poll(Log(s7, Delay(us_time_estimate)), c,
                   IF c = "esp32" /\ ~hw.rdy THEN us_time_estimate ELSE hw.idle, hw.rdy, TRUE)
        s9 == ModifyReg(s8, "timg0", "rtccalicfg", [rtc_cali_start |-> FALSE])
        s10 == ModifyReg(s9, "rtc_cntl", "clk_conf", [dig_xtal32k_en |-> dig_32k_xtal_enabled])
        s11 == ModifyRegIf(cal = RtcCal8mD256, s10,
                           "rtc_cntl", "clk_conf", [dig_clk8m_d256_en |-> FALSE])
    IN  [s |-> [s11 EXCEPT !.cali = [rdy |-> hw.rdy, timeout |-> ~hw.rdy /\ c # "esp32",
                                     value |-> IF hw.rdy THEN hw.value ELSE @.value]],
         val |-> IF hw.rdy THEN hw.value ELSE 0, panic |-> FALSE]

\* calibrate_internal as it would be with the target never resolved
calibrate_selected_literal(slow, c, slowclk_cycles, hw) ==
    IF slow.panic THEN [s |-> slow.s, val |-> 0, panic |-> TRUE]
    ELSE calibrate_measure(slow.s, c, RtcCalRtcMux, slowclk_cycles, hw)

\* calibrate_internal, lines 247-256: off the ESP32 the slow clock in use is
\* measured in place of RtcCalRtcMux
calibrate_selected(slow, c, slowclk_cycles, hw) ==
    IF slow.panic THEN [s |-> slow.s, val |-> 0, panic |-> TRUE]
    ELSE calibrate_measure(slow.s, c,
                           IF slow.val = RtcSlowClock32kXtal THEN RtcCal32kXtal
                           ELSE IF slow.val = RtcSlowClock8mD256 THEN RtcCal8mD256
                           ELSE RtcCalRtcMux,
                           slowclk_cycles, hw)

\* calibrate_internal as it would be with the 32 kHz crystal left connected
\* after it has been measured
calibrate_internal_leaving32k(s, c, cal_clk, slowclk_cycles, hw) ==
    LET r == IF c # "esp32" /\ cal_clk = RtcCalRtcMux
                 THEN calibrate_selected(get_slow_freq(s), c, slowclk_cycles, hw)
             ELSE calibrate_measure(s, c,
                                    IF c # "esp32" /\ cal_clk = RtcCalInternalOsc
                                        THEN RtcCalRtcMux ELSE cal_clk,
                                    slowclk_cycles, hw)
    IN  [r EXCEPT !.s.rtc.clk_conf.dig_xtal32k_en =
                     @ \/ r.s.tg.timg0.rtccalicfg.rtc_cali_clk_sel = RtcCal32kXtal]

calibrate_internal(s, c, cal_clk, slowclk_cycles, hw) ==
    IF c # "esp32" /\ cal_clk = RtcCalRtcMux
        THEN calibrate_selected(get_slow_freq(s), c, slowclk_cycles, hw)
    ELSE calibrate_measure(s, c,
                           IF c # "esp32" /\ cal_clk = RtcCalInternalOsc THEN RtcCalRtcMux
                           ELSE cal_clk,
                           slowclk_cycles, hw)

\* calibrate, lines 404-407: the period of the slow clock in microseconds,
\* Q13.19, as a 32-bit word, from the crystal cycles counted
\* sum is (xtal_cycles << 19) + divider / 2; taking 1 from a sum of 0 overflows,
\* which panics where overflow is checked and wraps where it is not (ovf)
calibrate_round(r, sum, divider_64) ==
    [s |-> r.s,
     val |-> BExt(BDiv(BSub(sum, U64(1)), U64(divider_64)), 2),
     ovf |-> BIsZero(sum),
     panic |-> r.panic]
calibrate_period(r, divider_64) ==
    calibrate_round(r, BAdd(BShl(U64(r.val), 19), U64(divider_64 \div 2)), divider_64)

calibrate(s, c, cal_clk, slowclk_cycles, hw) ==
    calibrate_period(calibrate_internal(get_xtal_freq(s).s, c, cal_clk, slowclk_cycles, hw),
                     get_xtal_freq(s).val * slowclk_cycles)

\* cycles_to_1ms, lines 421-424
cycles_of_period(r) ==
    [s |-> r.s,
     val |-> IF r.panic THEN 0
             ELSE F32ToU16(F32Div(F32OfU32(Word(1000)),
                                  F32Div(F32OfU32(r.val), F32OfU32(Word(2^19)))))[1],
     panic |-> r.panic]

cycles_to_1ms(s, c, hw) ==
    IF get_slow_freq(s).panic THEN [s |-> get_slow_freq(s).s, val |-> 0, panic |-> TRUE]
    ELSE cycles_of_period(calibrate(get_slow_freq(s).s, c,
                                    IF get_slow_freq(s).val = RtcSlowClockRtc THEN RtcCalRtcMux
                                    ELSE IF get_slow_freq(s).val = RtcSlowClock32kXtal
                                        THEN RtcCal32kXtal
                                    ELSE RtcCal8mD256,
                                    1024, hw))

\* start as it would be with the stage actions written one stage too far
Rwdt_write_stages_shifted(s) ==
    ModifyReg(s, "rtc_cntl", "wdtconfig0",
              [wdt_stg0 |-> s.rwdt.stg3_action,
               wdt_cpu_reset_length |-> 7, wdt_sys_reset_length |-> 7,
               wdt_stg1 |-> s.rwdt.stg0_action, wdt_stg2 |-> s.rwdt.stg1_action,
               wdt_stg3 |-> s.rwdt.stg2_action, wdt_en |-> TRUE])

\* start, lines 604-636: cycles is what cycles_to_1ms gave, period the period in
\* microseconds, a u64, and mult is Efuse::get_rwdt_multiplier()
Rwdt_write_stages(s) ==
    ModifyReg(s, "rtc_cntl", "wdtconfig0",
              [wdt_stg0 |-> s.rwdt.stg0_action,
               wdt_cpu_reset_length |-> 7, wdt_sys_reset_length |-> 7,
               wdt_stg1 |-> s.rwdt.stg1_action, wdt_stg2 |-> s.rwdt.stg2_action,
               wdt_stg3 |-> s.rwdt.stg3_action, wdt_en |-> TRUE])
Rwdt_start_write(cycles, c, period, mult) ==
    LET timeout_raw == BExt(BMul(BDiv(period, U64(1000)), U64(cycles.val)), 2)
        s1 == Rwdt_set_write_protection(cycles.s, FALSE)
        s2 == ModifyReg(s1, "rtc_cntl", "wdtconfig1",
                        [wdt_stg0_hold |-> IF c = "esp32" THEN timeout_raw
                                           ELSE BShr(timeout_raw, 1 + mult)])
        s3 == Rwdt_write_stages(s2)
    IN  IF cycles.panic THEN [s |-> cycles.s, panic |-> TRUE]
        ELSE [s |-> Rwdt_set_write_protection(s3, TRUE), panic |-> FALSE]

\* start as it would be with the registers unlocked before the calibration
Rwdt_start_unlocking_first(s, c, period, hw, mult) ==
    Rwdt_start_write(cycles_to_1ms(Rwdt_set_write_protection(s, FALSE), c, hw), c, period, mult)

Rwdt_start(s, c, period, hw, mult) ==
    Rwdt_start_write(cycles_to_1ms(s, c, hw), c, period, mult)

\* get_calibration_ratio, lines 389-391, with 18 fractional bits
calibration_ratio_q18(r, slowclk_cycles) ==
    [s |-> r.s,
     val |-> BExt(BDiv(BShl(U64(r.val), 18), U64(slowclk_cycles)), 2),
     panic |-> r.panic \/ slowclk_cycles = 0]

\* get_calibration_ratio, lines 389-391: r is what calibrate_internal gave; the
\* quotient is cut to its low 32 bits; dividing by zero panics
calibration_ratio(r, slowclk_cycles) ==
    [s |-> r.s,
     val |-> BExt(BDiv(BShl(U64(r.val), 19), U64(slowclk_cycles)), 2),
     panic |-> r.panic \/ slowclk_cycles = 0]

get_calibration_ratio(s, c, cal_clk, slowclk_cycles, hw) ==
    calibration_ratio(calibrate_internal(s, c, cal_clk, slowclk_cycles, hw), slowclk_cycles)

\* an enable_8m that sets the bits it should clear
enable_8m_inverted(s, clk_8m_en, d256_en) ==
    LET s1 == ModifyReg(s, "rtc_cntl", "clk_conf", [enb_ck8m |-> clk_8m_en])
        s2 == ModifyReg(s1, "rtc_cntl", "timer1", [ck8m_wait |-> IF clk_8m_en THEN 5 ELSE 20])
        s3 == [s2 EXCEPT !.acc = @ \o (IF clk_8m_en THEN <<Delay(50)>> ELSE <<>>)]
    IN  ModifyReg(s3, "rtc_cntl", "clk_conf", [enb_ck8m_div |-> d256_en])

\* enb_ck8m and enb_ck8m_div are set to switch the oscillator and its divider off
enable_8m(s, clk_8m_en, d256_en) ==
    LET s1 == ModifyReg(s, "rtc_cntl", "clk_conf", [enb_ck8m |-> ~clk_8m_en])
        s2 == ModifyReg(s1, "rtc_cntl", "timer1", [ck8m_wait |-> IF clk_8m_en THEN 5 ELSE 20])
        s3 == [s2 EXCEPT !.acc = @ \o (IF clk_8m_en THEN <<Delay(50)>> ELSE <<>>)]
    IN  ModifyReg(s3, "rtc_cntl", "clk_conf", [enb_ck8m_div |-> ~d256_en])

\* <RtcFastClock as Clock>::frequency of RtcFastClock8m, in Hz
RtcFastClock8m_frequency(c) == IF c \in {"esp32", "esp32s2"} THEN 8500000 ELSE 17500000

\* estimate_xtal_frequency, lines 440-446: ratio is what get_calibration_ratio gave
estimate_restore(ratio, c, clk_8m_enabled, clk_8md256_enabled) ==
    [s |-> enable_8m(ratio.s, clk_8m_enabled, clk_8md256_enabled),
     val |-> BExt(BShr(BDiv(BDiv(BMul(BExt(ratio.val, 4), U64(RtcFastClock8m_frequency(c))),
                                 U64(1000000)), U64(256)), 19), 2),
     panic |-> ratio.panic]

\* estimate_xtal_frequency, lines 435-439: s2 is s after the two reads of clk_conf
estimate_measure(s, s2, c, hw) ==
    estimate_restore(get_calibration_ratio(IF s.rtc.clk_conf.enb_ck8m_div
                                               THEN enable_8m(s2, TRUE, TRUE) ELSE s2,
                                           c, RtcCal8mD256, 10, hw),
                     c, ~s.rtc.clk_conf.enb_ck8m, ~s.rtc.clk_conf.enb_ck8m_div)

estimate_xtal_frequency(s, c, hw) ==
    estimate_measure(s, ReadReg(ReadReg(s, "rtc_cntl", "clk_conf"), "rtc_cntl", "clk_conf"),
                     c, hw)

\* calibrate_internal in the steps its caller can observe: up to each loop, one
\* turn of a loop at a time, and from the end of the poll loop to the return

\* lines 247-256: the clock that is measured
calibrate_clock(s, c, cal_clk) ==
    IF c # "esp32" /\ cal_clk = RtcCalRtcMux
        THEN [s |-> get_slow_freq(s).s,
              val |-> IF get_slow_freq(s).val = RtcSlowClock32kXtal THEN RtcCal32kXtal
                      ELSE IF get_slow_freq(s).val = RtcSlowClock8mD256 THEN RtcCal8mD256
                      ELSE RtcCalRtcMux,
              panic |-> get_slow_freq(s).panic]
    ELSE [s |-> s,
          val |-> IF c # "esp32" /\ cal_clk = RtcCalInternalOsc THEN RtcCalRtcMux ELSE cal_clk,
          panic |-> FALSE]

\* lines 260-272: the clock to measure is switched on
calibrate_enable(s, cal) ==
    LET s1 == ReadReg(s, "rtc_cntl", "clk_conf")
        s2 == ModifyRegIf(cal = RtcCal32kXtal /\ ~s.rtc.clk_conf.dig_xtal32k_en, s1,
                          "rtc_cntl", "clk_conf", [dig_xtal32k_en |-> TRUE])
    IN  ModifyRegIf(cal = RtcCal8mD256, s2, "rtc_cntl", "clk_conf", [dig_clk8m_d256_en |-> TRUE])

\* lines 277-290: a calibration may still be running; the threshold of 1 makes
\* the hardware give it up
calibrate_arm(s) ==
    ModifyRegIf(s.tg.timg0.rtccalicfg.rtc_cali_start_cycling,
                ReadReg(s, "timg0", "rtccalicfg"), "timg0", "rtccalicfg2",
                [rtc_cali_timeout_thres |-> 1])

\* line 332: the time the measurement should take, in microseconds
us_time_estimate(c, cal, slowclk_cycles) ==
    (slowclk_cycles * 1000000)
        \div RtcSlowClock_frequency(c, IF cal = RtcCal32kXtal THEN RtcSlowClock32kXtal
                                       ELSE IF cal = RtcCal8mD256 THEN RtcSlowClock8mD256
                                       ELSE RtcSlowClockRtc)

\* lines 297-341: the unit is set up and started, and the driver sleeps for the
\* estimate. Hardware: a start takes back the ready and the timeout flag.
calibrate_start(s, c, cal, slowclk_cycles) ==
    LET s5 == ModifyReg(s, "timg0", "rtccalicfg",
                        [rtc_cali_clk_sel |-> cal, rtc_cali_start_cycling |-> FALSE,
                         rtc_cali_max |-> slowclk_cycles % 2^16])
        s6 == ModifyRegIf(c # "esp32", s5, "timg0", "rtccalicfg2",
                          [rtc_cali_timeout_thres |->
                              slowclk_cycles * (IF cal \in {RtcCal32kXtal, RtcCal8mD256}
                                                THEN 2^12 ELSE 2^10)])
        s7 == ModifyReg(s6, "timg0", "rtccalicfg", [rtc_cali_start |-> TRUE])
    IN  [Log(s7, Delay(us_time_estimate(c, cal, slowclk_cycles)))
            EXCEPT !.cali.rdy = FALSE, !.cali.timeout = FALSE]

\* lines 370-381: the unit is stopped and the clocks are put back
calibrate_finish(s, cal, dig_32k_xtal_enabled) ==
    LET s9 == ModifyReg(s, "timg0", "rtccalicfg", [rtc_cali_start |-> FALSE])
        s10 == ModifyReg(s9, "rtc_cntl", "clk_conf", [dig_xtal32k_en |-> dig_32k_xtal_enabled])
    IN  ModifyRegIf(cal = RtcCal8mD256, s10, "rtc_cntl", "clk_conf",
                    [dig_clk8m_d256_en |-> FALSE])

\* lines 291-293: one turn of the wait for the calibration still running; the
\* timeout flag is read only when the ready flag is clear
calibrate_wait_turn(s) ==
    [s |-> IF s.cali.rdy THEN ReadReg(s, "timg0", "rtccalicfg")
           ELSE ReadReg(ReadReg(s, "timg0", "rtccalicfg"), "timg0", "rtccalicfg2"),
     done |-> s.cali.rdy \/ s.cali.timeout]

\* the poll loop as it would be without the test of the timeout flag
calibrate_poll_turn_deaf(s, c, timeout_us) ==
    IF s.cali.rdy
        THEN [s |-> ReadReg(ReadReg(s, "timg0", "rtccalicfg"), "timg0", "rtccalicfg1"),
              done |-> TRUE, val |-> s.cali.value, timeout_us |-> timeout_us, delays |-> 0]
    ELSE IF c # "esp32"
        THEN [s |-> ReadReg(s, "timg0", "rtccalicfg"),
              done |-> FALSE, val |-> 0, timeout_us |-> timeout_us, delays |-> 0]
    ELSE IF timeout_us > 0
        THEN [s |-> Log(ReadReg(s, "timg0", "rtccalicfg"), Delay(1)),
              done |-> FALSE, val |-> 0, timeout_us |-> timeout_us - 1, delays |-> 1]
    ELSE [s |-> ReadReg(s, "timg0", "rtccalicfg"),
          done |-> TRUE, val |-> 0, timeout_us |-> timeout_us, delays |-> 0]

\* lines 346-367: one turn of the poll loop. done: the loop breaks with val;
\* delays: the calls of esp_rom_delay_us(1) of the turn
calibrate_poll_turn(s, c, timeout_us) ==
    IF s.cali.rdy
        THEN [s |-> ReadReg(ReadReg(s, "timg0", "rtccalicfg"), "timg0", "rtccalicfg1"),
              done |-> TRUE, val |-> s.cali.value, timeout_us |-> timeout_us, delays |-> 0]
    ELSE IF c # "esp32"
        THEN [s |-> ReadReg(ReadReg(s, "timg0", "rtccalicfg"), "timg0", "rtccalicfg2"),
              done |-> s.cali.timeout, val |-> 0, timeout_us |-> timeout_us, delays |-> 0]
    ELSE IF timeout_us > 0
        THEN [s |-> Log(ReadReg(s, "timg0", "rtccalicfg"), Delay(1)),
              done |-> FALSE, val |-> 0, timeout_us |-> timeout_us - 1, delays |-> 1]
    ELSE [s |-> ReadReg(s, "timg0", "rtccalicfg"),
          done |-> TRUE, val |-> 0, timeout_us |-> timeout_us, delays |-> 0]

\* ---- the watchdogs driven by their caller

\* RTC_CNTL as the boot code leaves it: the watchdog in flash-boot mode, the slow
\* clock selected, the crystal frequency in both halves of STORE4
RtcBoot(unlocked, sel, xtal) ==
    [wdtwprotect |-> IF unlocked THEN RwdtKey ELSE Locked,
     wdtconfig0 |-> [wdt_en |-> FALSE, wdt_stg0 |-> 0, wdt_stg1 |-> 0, wdt_stg2 |-> 0,
                     wdt_stg3 |-> 0, wdt_cpu_reset_length |-> 1, wdt_sys_reset_length |-> 1,
                     wdt_flashboot_mod_en |-> TRUE],
     wdtconfig1 |-> [wdt_stg0_hold |-> Word(200000)],
     int_ena |-> [wdt_int_ena |-> FALSE],
     int_raw |-> [wdt_int_raw |-> FALSE],
     swd_wprotect |-> IF unlocked THEN SwdKey ELSE Locked,
     swd_conf |-> [swd_auto_feed_en |-> FALSE],
     clk_conf |-> [ana_clk_rtc_sel |-> sel, dig_xtal32k_en |-> FALSE,
                   dig_clk8m_d256_en |-> FALSE, enb_ck8m |-> FALSE, enb_ck8m_div |-> FALSE],
     timer1 |-> [ck8m_wait |-> 20],
     store4 |-> xtal]

\* a timer group's watchdog and calibration registers out of reset
TimgBoot(unlocked, cycling) ==
    [wdtwprotect |-> IF unlocked THEN WdtKey ELSE Locked,
     wdtconfig0 |-> WdtConfig0Reset,
     wdtconfig1 |-> [wdt_clk_prescale |-> 1],
     wdtconfig2 |-> [wdt_stg0_hold |-> Word(26000000)],
     rtccalicfg |-> [rtc_cali_clk_sel |-> 1, rtc_cali_start_cycling |-> cycling,
                     rtc_cali_max |-> 1, rtc_cali_start |-> FALSE],
     rtccalicfg2 |-> [rtc_cali_timeout_thres |-> 0]]

Watchdogs == {"rwdt", "swd", "timg0", "timg1"}
\* the write-protect register of a watchdog, and its key
WpReg(p) ==
    IF p = "rwdt" THEN [blk |-> "rtc_cntl", reg |-> "wdtwprotect", key |-> RwdtKey]
    ELSE IF p = "swd" THEN [blk |-> "rtc_cntl", reg |-> "swd_wprotect", key |-> SwdKey]
    ELSE [blk |-> p, reg |-> "wdtwprotect", key |-> WdtKey]
\* the values written to the write-protect register of p in the accesses a
WpWrites(a, p) ==
    LET IsWp(x) == x[1] = "w" /\ x[2] = WpReg(p).blk /\ x[3] = WpReg(p).reg
        w == SelectSeq(a, IsWp)
    IN  [i \in 1..Len(w) |-> w[i][4]] \o <<>>
WpKind(p, v) == IF v = Locked THEN "lock" ELSE IF v = WpReg(p).key THEN "unlock" ELSE "other"

\* no call of calibrate_internal is in progress
CalIdle ==
    [at |-> "idle", cal |-> 0, cycles |-> 0, timeout_us |-> 0, dig_32k |-> FALSE, polls |-> 0]

\* the units a driver instance addresses: the timers and the watchdog of each
\* timer group, the RTC watchdog and the super watchdog
TimerUnits(c) == {<<g, u>> : g \in {"timg0", "timg1"}, u \in Units(c)}
DriverUnits(c) ==
    TimerUnits(c) \cup {<<"timg0", "wdt">>, <<"timg1", "wdt">>, <<"rtc_cntl", "rwdt">>}
        \cup (IF c \in {"esp32c3", "esp32s3"} THEN {<<"rtc_cntl", "swd">>} ELSE {})
\* the caller holds the three singletons of the PAC and has built nothing
LiveNone(c) ==
    [held |-> {"TIMG0", "TIMG1", "RTC_CNTL"}, n |-> [x \in DriverUnits(c) |-> 0],
     raw |-> [x \in TimerUnits(c) |-> 0]]
\* TimerGroup::new for both groups and Rtc::new have consumed the singletons
LiveBuilt(c) ==
    [held |-> {}, n |-> [x \in DriverUnits(c) |-> 1], raw |-> [x \in TimerUnits(c) |-> 0]]

\* Rtc::new builds the Rwdt with its default actions and touches no watchdog
\* register; Wdt::new touches none either
\* the registers and the Rwdt object before the first call of the driver
RtcRegisters(rtcs, tgs, mults) ==
    /\ rwdt = [stg0_action |-> RwdtStageActionResetRtc, stg1_action |-> RwdtStageActionOff,
               stg2_action |-> RwdtStageActionOff, stg3_action |-> RwdtStageActionOff]
    /\ rtc_cntl \in rtcs
    /\ \E tg \in tgs : timg = [g \in {"timg0", "timg1"} |-> tg]
    /\ lastw = [p \in Watchdogs |-> [pre |-> "none", post |-> "none"]]
    /\ efuse \in mults
    /\ cali = [rdy |-> FALSE, timeout |-> FALSE, value |-> 0]
    /\ pc = CalIdle
RtcNew(rtcs, tgs, mults) ==
    /\ RtcRegisters(rtcs, tgs, mults)
    /\ live = LiveBuilt(chip)
WdtNew(unlockeds, sels, xtals, cyclings, mults) ==
    \E u \in unlockeds :
        RtcNew({RtcBoot(u, sel, x) : sel \in sels, x \in xtals},
               {TimgBoot(u, cy) : cy \in cyclings}, mults)

WEntry == [rtc |-> rtc_cntl, tg |-> timg, rwdt |-> rwdt, cali |-> cali, acc |-> <<>>]
WReturn(s, op, arg, val, panic) ==
    /\ ~halted
    /\ \E t \in {s} :
          /\ rtc_cntl' = t.rtc
          /\ timg' = t.tg
          /\ rwdt' = t.rwdt
          /\ cali' = t.cali
          /\ acc' = t.acc
          /\ lastw' = [p \in Watchdogs |->
                         [pre |-> lastw[p].post,
                          post |-> IF WpWrites(t.acc, p) = <<>> THEN lastw[p].post
                                   ELSE WpKind(p, WpWrites(t.acc, p)[Len(WpWrites(t.acc, p))])]]
    /\ ret' = [op |-> op, arg |-> arg, val |-> val]
    /\ halted' = panic
    /\ UNCHANGED <<chip, efuse, pc, live, apb_clk_freq, treg, tint, inst, unclaimed, started,
                   okCancels>>

RwdtListen == WReturn(Rwdt_listen(WEntry), "Rwdt::listen", NoArg, "Unit", FALSE)
RwdtUnlisten == WReturn(Rwdt_unlisten(WEntry), "Rwdt::unlisten", NoArg, "Unit", FALSE)
RwdtClearInterrupt ==
    WReturn(Rwdt_clear_interrupt(WEntry), "Rwdt::clear_interrupt", NoArg, "Unit", FALSE)
RwdtIsInterruptSet ==
    \E r \in {Rwdt_is_interrupt_set(WEntry)} :
        WReturn(r.s, "Rwdt::is_interrupt_set", NoArg, IF r.val THEN "true" ELSE "false", FALSE)
RwdtDisable == WReturn(Rwdt_disable(WEntry), "Rwdt::disable", NoArg, "Unit", FALSE)
RwdtStart(period, hw) ==
    \E r \in {Rwdt_start(WEntry, chip, period, hw, efuse)} :
        WReturn(r.s, "Rwdt::start", period, IF r.panic THEN "panic" ELSE "Unit", r.panic)
RwdtFeed == WReturn(Rwdt_feed(WEntry), "Rwdt::feed", NoArg, "Unit", FALSE)
SwdDisable ==
    /\ chip \in {"esp32c3", "esp32s3"}
    /\ WReturn(Swd_disable(WEntry), "Swd::disable", NoArg, "Unit", FALSE)
WdtDisable(g) ==
    WReturn(Wdt_set_wdt_enabled(WEntry, g, FALSE), "Wdt::disable", <<g>>, "Unit", FALSE)
WdtStart(g, period) ==
    WReturn(Wdt_set_timeout(WEntry, g, period, chip), "Wdt::start", <<g, period>>, "Unit", FALSE)
WdtFeed(g) == WReturn(Wdt_feed(WEntry, g), "Wdt::feed", <<g>>, "Unit", FALSE)

\* hardware: stage 0 of the enabled RTC watchdog expires with the interrupt action
HwRwdtExpire ==
    /\ rtc_cntl.wdtconfig0.wdt_en
    /\ rtc_cntl.wdtconfig0.wdt_stg0 = RwdtStageActionInterrupt
    /\ ~rtc_cntl.int_raw.wdt_int_raw
    /\ WReturn([WEntry EXCEPT !.rtc.int_raw.wdt_int_raw = TRUE], "expire", NoArg, "Unit", FALSE)

\* ---- the RTC clock driven by its caller

\* The functions of RtcClock return a u32: ret.val is the 32-bit word returned,
\* and <<>> when the call panicked and returned nothing.
NoVal == <<>>
ValOf(r) == IF r.panic THEN NoVal ELSE r.val

CalibrateInternal(cal_clk, slowclk_cycles, hw) ==
    \E r \in {calibrate_internal(WEntry, chip, cal_clk, slowclk_cycles, hw)} :
        WReturn(r.s, "calibrate_internal", <<cal_clk, slowclk_cycles>>,
                IF r.panic THEN NoVal ELSE Word(r.val), r.panic)
GetCalibrationRatio(cal_clk, slowclk_cycles, hw) ==
    \E r \in {get_calibration_ratio(WEntry, chip, cal_clk, slowclk_cycles, hw)} :
        WReturn(r.s, "get_calibration_ratio", <<cal_clk, slowclk_cycles>>, ValOf(r), r.panic)
\* checks: the crate is built with overflow checks
Calibrate(cal_clk, slowclk_cycles, hw, checks) ==
    \E r \in {calibrate(WEntry, chip, cal_clk, slowclk_cycles, hw)} :
        WReturn(r.s, "calibrate", <<cal_clk, slowclk_cycles>>,
                IF r.panic \/ (r.ovf /\ checks) THEN NoVal ELSE r.val,
                r.panic \/ (r.ovf /\ checks))
EstimateXtalFrequency(hw) ==
    \E r \in {estimate_xtal_frequency(WEntry, chip, hw)} :
        WReturn(r.s, "estimate_xtal_frequency", NoArg, ValOf(r), r.panic)

\* ---- calibrate_internal driven turn by turn, and the calibration unit

\* one step of the call in progress: p is where it stands afterwards
CalStep(s, p, op, arg, val, panic) ==
    /\ ~halted
    /\ \E t \in {s} :
          /\ rtc_cntl' = t.rtc
          /\ timg' = t.tg
          /\ cali' = t.cali
          /\ acc' = t.acc
    /\ pc' = p
    /\ ret' = [op |-> op, arg |-> arg, val |-> val]
    /\ halted' = panic
    /\ UNCHANGED <<chip, rwdt, lastw, efuse, live, apb_clk_freq, treg, tint, inst,
                   unclaimed, started, okCancels>>

\* the call, up to the first loop it meets: the wait for a calibration still
\* running off the ESP32, the poll loop otherwise
CalEnter(cal_clk, slowclk_cycles) ==
    /\ pc.at = "idle"
    /\ \E k \in {calibrate_clock(WEntry, chip, cal_clk)} :
       \E s \in {IF chip = "esp32" THEN calibrate_enable(k.s, k.val)
                 ELSE calibrate_arm(calibrate_enable(k.s, k.val))} :
       \E p \in {[at |-> "poll", cal |-> k.val, cycles |-> slowclk_cycles,
                  timeout_us |-> IF chip = "esp32"
                                 THEN us_time_estimate(chip, k.val, slowclk_cycles) ELSE 0,
                  dig_32k |-> rtc_cntl.clk_conf.dig_xtal32k_en, polls |-> 0]} :
          IF k.panic
              THEN CalStep(k.s, CalIdle, "calibrate_internal", <<cal_clk, slowclk_cycles>>,
                           NoVal, TRUE)
          ELSE IF chip # "esp32" /\ timg.timg0.rtccalicfg.rtc_cali_start_cycling
              THEN CalStep(s, [p EXCEPT !.at = "wait"], "enter", <<cal_clk, slowclk_cycles>>,
                           NoVal, FALSE)
          ELSE CalStep(calibrate_start(s, chip, k.val, slowclk_cycles), p, "enter",
                       <<cal_clk, slowclk_cycles>>, NoVal, FALSE)

\* one turn of the wait loop; when it ends the calibration is started
CalWaitLast ==
    /\ pc.at = "wait"
    /\ \E r \in {calibrate_wait_turn(WEntry)} :
          IF r.done
              THEN CalStep(calibrate_start(r.s, chip, pc.cal, pc.cycles),
                           [pc EXCEPT !.at = "poll"], "wait", <<pc.cal, pc.cycles>>, NoVal, FALSE)
          ELSE CalStep(r.s, pc, "wait", <<pc.cal, pc.cycles>>, NoVal, FALSE)

\* one turn of the poll loop; when it ends the call returns
CalPoll ==
    /\ pc.at = "poll"
    /\ \E r \in {calibrate_poll_turn(WEntry, chip, pc.timeout_us)} :
          IF r.done
              THEN CalStep(calibrate_finish(r.s, pc.cal, pc.dig_32k), CalIdle,
                           "calibrate_internal", <<pc.cal, pc.cycles>>, Word(r.val), FALSE)
          ELSE CalStep(r.s, [pc EXCEPT !.timeout_us = r.timeout_us, !.polls = @ + r.delays],
                       "poll", <<pc.cal, pc.cycles>>, NoVal, FALSE)

\* hardware: the calibration unit finishes with a count, or, off the ESP32,
\* gives up at its timeout threshold
HwCaliReady(value) ==
    /\ pc.at \in {"wait", "poll"}
    /\ ~cali.rdy /\ ~cali.timeout
    /\ CalStep([WEntry EXCEPT !.cali = [rdy |-> TRUE, timeout |-> FALSE, value |-> value]],
               pc, "rtc_cali_rdy", NoArg, NoVal, FALSE)
HwCaliTimeout ==
    /\ chip # "esp32"
    /\ pc.at \in {"wait", "poll"}
    /\ ~cali.rdy /\ ~cali.timeout
    /\ CalStep([WEntry EXCEPT !.cali.timeout = TRUE], pc, "rtc_cali_timeout", NoArg, NoVal,
               FALSE)

\* ---- the constructors and destructors driven by their caller

\* the largest number of instances over one unit that is explored
MaxLive == 2

\* a constructor or destructor touches no register
OwnStep(l, op, arg) ==
    /\ ~halted
    /\ live' = l
    /\ ret' = [op |-> op, arg |-> arg, val |-> NoVal]
    /\ acc' = <<>>
    /\ UNCHANGED <<chip, rwdt, rtc_cntl, timg, lastw, efuse, cali, pc, apb_clk_freq, treg,
                   tint, inst, halted, unclaimed, started, okCancels>>
\* one more instance over each unit of xs
Built(l, xs) == [l EXCEPT !.n = [x \in DOMAIN @ |-> IF x \in xs THEN @[x] + 1 ELSE @[x]]]
Singleton(g) == IF g = "timg0" THEN "TIMG0" ELSE "TIMG1"

\* TimerGroup::new(_timer_group: T, ..): the singleton is moved in
TimerGroupNew(g) ==
    /\ Singleton(g) \in live.held
    /\ live.n[<<g, "wdt">>] < MaxLive
    /\ OwnStep(Built([live EXCEPT !.held = @ \ {Singleton(g)}],
                     {<<g, u>> : u \in Units(chip)} \cup {<<g, "wdt">>}),
               "TimerGroup::new", <<g>>)
\* Timer::free(self) -> T: the timer is moved out and its raw handle is given back
TimerFree(x) ==
    /\ live.n[x] > 0
    /\ OwnStep([live EXCEPT !.n[x] = @ - 1, !.raw[x] = @ + 1], "Timer::free", x)
\* Timer::new(timg: T, ..): Timer0 and Timer1 have a private field, so that the
\* caller has no raw handle but one that free gave back
TimerOfRaw(x) ==
    /\ live.raw[x] > 0
    /\ OwnStep([live EXCEPT !.raw[x] = @ - 1, !.n[x] = @ + 1], "Timer::new", x)
\* Wdt::new(), Swd::new() and Rwdt::default() are public and take no argument
WdtOfNothing(g) ==
    /\ live.n[<<g, "wdt">>] < MaxLive
    /\ OwnStep(Built(live, {<<g, "wdt">>}), "Wdt::new", <<g>>)
SwdNew ==
    /\ chip \in {"esp32c3", "esp32s3"}
    /\ live.n[<<"rtc_cntl", "swd">>] < MaxLive
    /\ OwnStep(Built(live, {<<"rtc_cntl", "swd">>}), "Swd::new", NoArg)
RwdtDefault ==
    /\ live.n[<<"rtc_cntl", "rwdt">>] < MaxLive
    /\ OwnStep(Built(live, {<<"rtc_cntl", "rwdt">>}), "Rwdt::default", NoArg)
\* Rtc::new(rtc_cntl: RTC_CNTL): the singleton is moved in
RtcOfSingleton ==
    /\ "RTC_CNTL" \in live.held
    /\ \A x \in {<<"rtc_cntl", "rwdt">>, <<"rtc_cntl", "swd">>} \cap DOMAIN live.n :
          live.n[x] < MaxLive
    /\ OwnStep(Built([live EXCEPT !.held = @ \ {"RTC_CNTL"}],
                     {<<"rtc_cntl", "rwdt">>, <<"rtc_cntl", "swd">>}),
               "Rtc::new", NoArg)
\* an instance goes out of scope
Drop(x) ==
    /\ live.n[x] > 0
    /\ OwnStep([live EXCEPT !.n[x] = @ - 1], "drop", x)

\* ---- specifications

vars == <<chip, tvars, wvars>>

\* the watchdogs at rest while the timers are explored, and the timers at rest
\* while the watchdogs are
XtalBoth(mhz) == <<mhz, mhz>>
WdtIdle == WdtNew({FALSE}, {RtcSlowClockRtc}, {XtalBoth(40)}, {FALSE}, {0})
TimerIdle == TimerNew({"esp32", "esp32c3"}, {80000000}, {0}) /\ inst = "T0"

\* The timer of one unit, driven by its caller and by the hardware counter. The
\* prescale fields 0 and 40000 divide the 80 MHz APB clock by 65536 and 40000, so
\* that the timeouts are 1 to 3 ticks long.
InitTimer == TimerNew({"esp32", "esp32c3"}, {80000000}, {0, 40000}) /\ WdtIdle
NextTimer ==
    \/ \E t \in Timeouts : Start(t)
    \/ Wait
    \/ Cancel
    \/ Listen
    \/ Unlisten
    \/ ClearInterrupt
    \/ ReadRaw
    \/ \E u \in Units(chip) : HwCount(u)
    \/ \E u \in Units(chip), disarm \in BOOLEAN : HwAlarm(u, disarm)
SpecTimer == InitTimer /\ [][NextTimer]_vars

\* A periodic timer: the caller starts it once and from then on only polls
\* wait(), while the hardware counter keeps advancing. The
\* timeouts are 1 to 3 ticks long. The caller keeps polling and the counter
\* keeps counting: both are weakly fair.
HwStep == HwCount(inst) \/ (\E disarm \in BOOLEAN : HwAlarm(inst, disarm)) \/ HwWrap(inst)
InitPeriodic == InitTimer
NextPeriodic ==
    \/ \E t \in Timeouts : ~started /\ Start(t)
    \/ Wait
    \/ HwCount(inst)
    \/ \E disarm \in BOOLEAN : HwAlarm(inst, disarm)
    \/ HwWrap(inst)
SpecPeriodic ==
    /\ InitPeriodic /\ [][NextPeriodic]_vars
    /\ WF_vars(Wait) /\ WF_vars(HwStep)

\* divider() on every value of the 16-bit prescale field
Divider ==
    /\ ~halted
    /\ Return(Log(Entry, Rd(inst, "config")), "divider", NoArg, divider(Entry, inst))
    /\ UNCHANGED <<wvars, chip, apb_clk_freq, inst, halted, unclaimed, started, okCancels>>
InitDivider == TimerNew({"esp32", "esp32c3"}, {80000000}, 0..65535) /\ WdtIdle
NextDivider == Divider
SpecDivider == InitDivider /\ [][NextDivider]_vars

\* start(timeout) over timeouts, APB frequencies and prescale fields
TickTimeouts ==
    {U64(0), U64(1), U64(7), U64(9), U64(18), U64(1000), U64(2999), U64(123456),
     U64(1000000000)}
TickClocks == {80000000, 40000000, 26000000}
TickFields == {0, 1, 2, 3, 9, 37, 65535}
InitTicks == TimerNew({"esp32"}, TickClocks, TickFields) /\ WdtIdle
NextTicks == \E t \in TickTimeouts : Start(t)
SpecTicks == InitTicks /\ [][NextTicks]_vars

\* The three watchdogs driven by their caller, with the calibration unit either
\* reporting a count of crystal cycles or timing out. 273066 is the count of
\* 40 MHz crystal cycles in 1024 cycles of a 150 kHz slow clock.
RwdtPeriods == {U64(2000000)}
WdtPeriods == {U64(1000000)}
WdtGroups == {"timg0"}
CalOutcomes ==
    {[prev_rdy |-> TRUE, idle |-> 0, rdy |-> TRUE, value |-> 273066],
     [prev_rdy |-> FALSE, idle |-> 1, rdy |-> FALSE, value |-> 0]}
InitWdt ==
    TimerIdle /\ WdtNew({TRUE}, {RtcSlowClockRtc}, {XtalBoth(40)}, {TRUE}, {1})
NextWdt ==
    \/ RwdtListen
    \/ RwdtUnlisten
    \/ RwdtClearInterrupt
    \/ RwdtIsInterruptSet
    \/ RwdtDisable
    \/ \E period \in RwdtPeriods, hw \in CalOutcomes : RwdtStart(period, hw)
    \/ RwdtFeed
    \/ SwdDisable
    \/ \E g \in WdtGroups : WdtDisable(g)
    \/ \E g \in WdtGroups, period \in WdtPeriods : WdtStart(g, period)
    \/ \E g \in WdtGroups : WdtFeed(g)
    \/ HwRwdtExpire
SpecWdt == InitWdt /\ [][NextWdt]_vars

\* Wdt::start on both timer groups over periods on either side of 2^32 ticks of
\* 12.5 ns: 53_687_091 us is the longest period whose tick count fits 32 bits.
StartPeriods ==
    {U64(0), U64(1), U64(1000000), U64(53687091), U64(53687092), U64(60000000)}
InitWdtStart ==
    TimerIdle /\ WdtNew({TRUE}, {RtcSlowClockRtc}, {XtalBoth(40)}, {FALSE}, {0})
NextWdtStart == \E g \in {"timg0", "timg1"}, period \in StartPeriods : WdtStart(g, period)
SpecWdtStart == InitWdtStart /\ [][NextWdtStart]_vars

\* The calibration functions of RtcClock called with windows of 1, 3, 10 and 1024
\* slow clock cycles, the crystal frequency register holding 40, 3 or 1 MHz, and
\* the 8 MHz oscillator and its divider switched on or off. The calibration unit
\* reports a count of crystal cycles or times out: 272384 = 266 * 1024 is the
\* count for a 150 kHz slow clock, and 8192 * 2^19 = 2^32.
CalCalls ==
    {[cycles |-> 1, hw |-> [prev_rdy |-> TRUE, idle |-> 0, rdy |-> TRUE, value |-> 8192]],
     [cycles |-> 1, hw |-> [prev_rdy |-> TRUE, idle |-> 1, rdy |-> TRUE, value |-> 1]],
     [cycles |-> 1, hw |-> [prev_rdy |-> TRUE, idle |-> 0, rdy |-> TRUE, value |-> 0]],
     [cycles |-> 1, hw |-> [prev_rdy |-> FALSE, idle |-> 1, rdy |-> FALSE, value |-> 0]],
     [cycles |-> 3, hw |-> [prev_rdy |-> FALSE, idle |-> 0, rdy |-> TRUE, value |-> 3]],
     [cycles |-> 10, hw |-> [prev_rdy |-> TRUE, idle |-> 2, rdy |-> FALSE, value |-> 0]],
     [cycles |-> 1024, hw |-> [prev_rdy |-> TRUE, idle |-> 0, rdy |-> TRUE, value |-> 272384]]}
CalClocks == {RtcCalRtcMux, RtcCal32kXtal}
CalEstimates ==
    {[prev_rdy |-> TRUE, idle |-> 0, rdy |-> TRUE, value |-> 12047],
     [prev_rdy |-> TRUE, idle |-> 1, rdy |-> FALSE, value |-> 0]}
InitCal ==
    /\ TimerBoot({"esp32", "esp32c3"}, {80000000}, {0}) /\ inst = "T0"
    /\ ret = [op |-> "new", arg |-> NoArg, val |-> NoVal]
    /\ \E x \in {40, 3, 1}, e \in BOOLEAN \X BOOLEAN :
          /\ x # 40 => e = <<FALSE, FALSE>>
          /\ RtcNew({[RtcBoot(FALSE, RtcSlowClockRtc, XtalBoth(x))
                        EXCEPT !.clk_conf.enb_ck8m = e[1], !.clk_conf.enb_ck8m_div = e[2]]},
                    {TimgBoot(FALSE, TRUE)}, {0})
NextCal ==
    \/ \E cal \in CalClocks, call \in CalCalls : CalibrateInternal(cal, call.cycles, call.hw)
    \/ \E call \in CalCalls : GetCalibrationRatio(RtcCalRtcMux, call.cycles, call.hw)
    \/ \E call \in CalCalls, checks \in BOOLEAN :
          Calibrate(RtcCalRtcMux, call.cycles, call.hw, checks)
    \/ \E hw \in CalEstimates : EstimateXtalFrequency(hw)
SpecCal == InitCal /\ [][NextCal]_vars

\* calibrate_internal followed turn by turn against the calibration unit, on the
\* ESP32 and the ESP32-C3, with and without a calibration left running at boot.
\* The driver's code runs on: a loop that can take a turn takes it. Off the
\* ESP32 the unit gives up at its timeout threshold unless it finishes first.
\* On the ESP32 nothing is asked of the unit.
PollCycles == {1, 10}
PollCounts == {0, 12047}
InitPoll ==
    /\ TimerBoot({"esp32", "esp32c3"}, {80000000}, {0})
    /\ inst = "T0"
    /\ ret = [op |-> "new", arg |-> NoArg, val |-> NoVal]
    /\ RtcNew({RtcBoot(FALSE, RtcSlowClockRtc, XtalBoth(40))},
              {TimgBoot(FALSE, cy) : cy \in BOOLEAN}, {0})
NextPoll ==
    \/ \E cal_clk \in CalClocks, slowclk_cycles \in PollCycles :
          CalEnter(cal_clk, slowclk_cycles)
    \/ CalWaitLast
    \/ CalPoll
    \/ \E value \in PollCounts : HwCaliReady(value)
    \/ HwCaliTimeout
SpecPoll ==
    /\ InitPoll /\ [][NextPoll]_vars
    /\ WF_vars(CalWaitLast) /\ WF_vars(CalPoll) /\ WF_vars(HwCaliTimeout)

\* The public constructors and destructors called in any order, from the PAC's
\* three singletons in the caller's hands and no driver instance built.
InitOwn ==
    /\ TimerBoot({"esp32", "esp32c3"}, {80000000}, {0})
    /\ inst = "T0"
    /\ ret = [op |-> "take", arg |-> NoArg, val |-> NoVal]
    /\ RtcRegisters({RtcBoot(FALSE, RtcSlowClockRtc, XtalBoth(40))}, {TimgBoot(FALSE, FALSE)},
                    {0})
    /\ live = LiveNone(chip)
NextOwn ==
    \/ \E g \in {"timg0", "timg1"} : TimerGroupNew(g)
    \/ \E x \in TimerUnits(chip) : TimerFree(x)
    \/ \E x \in TimerUnits(chip) : TimerOfRaw(x)
    \/ \E g \in {"timg0", "timg1"} : WdtOfNothing(g)
    \/ SwdNew
    \/ RwdtDefault
    \/ RtcOfSingleton
    \/ \E x \in DriverUnits(chip) : Drop(x)
SpecOwn == InitOwn /\ [][NextOwn]_vars

\* calibrate_internal called with every target the chip has, on the ESP32, the
\* ESP32-S2 and the ESP32-C3, from every selection of the slow clock and every
\* state of the two auxiliary clock enables, with the calibration unit reporting
\* a count or timing out. RtcCalInternalOsc does not exist on the ESP32.
CalSels(c) ==
    IF c = "esp32" THEN {RtcCalRtcMux, RtcCal8mD256, RtcCal32kXtal}
    ELSE {RtcCalRtcMux, RtcCal8mD256, RtcCal32kXtal, RtcCalInternalOsc}
MeasureCycles == {1, 1024}
MeasureOutcomes ==
    {[prev_rdy |-> TRUE, idle |-> 0, rdy |-> TRUE, value |-> 12047],
     [prev_rdy |-> FALSE, idle |-> 1, rdy |-> FALSE, value |-> 0]}
InitMeasure ==
    /\ TimerBoot({"esp32", "esp32s2", "esp32c3"}, {80000000}, {0}) /\ inst = "T0"
    /\ ret = [op |-> "new", arg |-> NoArg, val |-> NoVal]
    /\ RtcNew({[RtcBoot(FALSE, sel, XtalBoth(40))
                  EXCEPT !.clk_conf.dig_xtal32k_en = x32k, !.clk_conf.dig_clk8m_d256_en = d256]
                 : sel \in {RtcSlowClockRtc, RtcSlowClock32kXtal, RtcSlowClock8mD256},
                   x32k \in BOOLEAN, d256 \in BOOLEAN},
              {TimgBoot(FALSE, cy) : cy \in BOOLEAN}, {0})
NextMeasure ==
    \E cal_clk \in CalSels(chip), slowclk_cycles \in MeasureCycles, hw \in MeasureOutcomes :
        CalibrateInternal(cal_clk, slowclk_cycles, hw)
SpecMeasure == InitMeasure /\ [][NextMeasure]_vars

\* load_alarm_value on Timer0 and Timer1 with tick counts below 2^56: the limbs
\* of 16 bits are chosen so that the counts lie on either side of 2^16, 2^32,
\* 2^48, 2^54 and 2^55, up to 2^56 - 1
AlarmValues ==
    {<<l1, l2, l3, l4>> : l1 \in {0, 1, 65535}, l2 \in {0, 65535}, l3 \in {0, 65535},
                          l4 \in {0, 1, 63, 64, 128, 255}}
InitAlarm == TimerNew({"esp32", "esp32c3"}, {80000000}, {0}) /\ WdtIdle
NextAlarm == \E value \in AlarmValues : LoadAlarmValue(value)
SpecAlarm == InitAlarm /\ [][NextAlarm]_vars

\* Two timers driven in turn by their caller, with the hardware raising the
\* alarms: Timer0 and Timer1 of TIMG0 on the esp32, and the Timer0 of either
\* group on the esp32c3, which has no Timer1. The prescale field 0 divides by
\* 65536: 1000 us are 1 tick.
PairUnits(c) == IF c = "esp32c3" THEN {"T0", "TIMG1.T0"} ELSE {"T0", "T1"}
InitPair == TimerNew({"esp32", "esp32c3"}, {80000000}, {0}) /\ WdtIdle
NextPair ==
    \/ Start(U64(1000))
    \/ Wait
    \/ Cancel
    \/ Listen
    \/ Unlisten
    \/ ClearInterrupt
    \/ ReadRaw
    \/ \E u \in PairUnits(chip), disarm \in BOOLEAN : HwAlarm(u, disarm)
    \/ \E u \in PairUnits(chip) : Switch(u)
SpecPair == InitPair /\ [][NextPair]_vars

\* ---- properties of the timers

AlarmValue(u) == treg[u].alarm_lo \o treg[u].alarm_hi
RawSet(u) == tint.raw[u]

\* C4: start(timeout) followed at once by wait(), with no tick of the counter in
\* between, returns WouldBlock, whatever happened before the start.
C4_StartThenWaitWouldBlock ==
    [][(ret.op = "start" /\ ret'.op = "wait") => ret'.val = "WouldBlock"]_vars

\* C5: wait() returns Ok only when the raw interrupt flag is set; it then clears the
\* flag and sets alarm_en; a wait() right after an Ok returns WouldBlock, and only
\* the counter reaching the alarm value sets the flag again; the Ok results never
\* outnumber the alarm matches.
C5_WaitOkOncePerAlarm ==
    [][/\ unclaimed' >= 0
       /\ (ret'.op = "wait" /\ ret'.val = "Ok") =>
              /\ RawSet(inst) /\ treg[inst].en
              /\ ~RawSet(inst)'
              /\ treg'[inst].alarm_en
              /\ treg' = [treg EXCEPT ![inst].alarm_en = TRUE]
       /\ (ret.op = "wait" /\ ret.val = "Ok" /\ ret'.op = "wait") => ret'.val = "WouldBlock"
       /\ (~RawSet(inst) /\ RawSet(inst)') => (ret' = Tick /\ AlarmAt(treg[inst]))
      ]_vars
C5_Witness ==
    /\ ret.op = "wait" /\ ret.val = "Ok"
    /\ ~RawSet(inst) /\ treg[inst].alarm_en /\ unclaimed = 1

\* C6: cancel() before any start() returns TimerInactive; a cancel() right after a
\* cancel() that returned Ok returns TimerInactive; cancel() returns Ok at most
\* once between two start() calls.
C6_CancelOnce ==
    [][/\ (~started' /\ ret'.op = "cancel") => ret'.val = "TimerInactive"
       /\ (ret.op = "cancel" /\ ret.val = "Ok" /\ ret'.op = "cancel") =>
              ret'.val = "TimerInactive"
       /\ okCancels' <= 1
      ]_vars
C6_Witness ==
    /\ started /\ okCancels = 1
    /\ ret.op = "cancel" /\ ret.val = "TimerInactive"

\* C7: cancel() returns AlarmInactive exactly when the counter is enabled and the
\* alarm is not; with the counter disabled it returns TimerInactive after reading
\* the enable bit only; an error leaves every register as it was; Ok clears the
\* counter enable bit and nothing else.
C7_CancelErrors ==
    [][ret'.op = "cancel" =>
         /\ (ret'.val = "AlarmInactive") <=> (treg[inst].en /\ ~treg[inst].alarm_en)
         /\ (ret'.val = "TimerInactive") <=> ~treg[inst].en
         /\ ret'.val = "TimerInactive" => acc' = <<Rd(inst, "config")>>
         /\ ret'.val # "Ok" => (treg' = treg /\ tint' = tint)
         /\ ret'.val = "Ok" => (treg' = [treg EXCEPT ![inst].en = FALSE] /\ tint' = tint)
      ]_vars
C7_Witness ==
    /\ ret.op = "cancel" /\ ret.val = "AlarmInactive"
    /\ treg[inst].en /\ ~treg[inst].alarm_en /\ RawSet(inst)

\* C8: wait() with the counter disabled panics, having read only the enable bit:
\* the interrupt flag is neither read nor cleared.
C8_WaitInactivePanics ==
    [][/\ (ret'.op = "wait" /\ ~treg[inst].en) =>
              /\ ret'.val = "panic" /\ halted'
              /\ acc' = <<Rd(inst, "config")>>
              /\ treg' = treg /\ tint' = tint
       /\ halted' => (ret'.op = "wait" /\ ret'.val = "panic")
      ]_vars
C8_Witness ==
    /\ halted /\ ret.val = "panic"
    /\ started /\ okCancels = 1 /\ RawSet(inst)

\* floor(timeout * clock / divider / 1_000_000), exactly
ExactTicks(timeout, clock, d) ==
    BDiv(BMul(BExt(timeout, 8), BExt(clock, 8)), BMul(BExt(d, 8), BOfInt(1000000, 8)))

\* C9: the alarm value start(timeout) loads is
\* floor(timeout_micros * ref_clock_hz / divider / 1_000_000).
C9_AlarmIsExactTicks ==
    ret.op = "start" =>
        BExt(AlarmValue(inst), 8)
            = ExactTicks(ret.arg, U64(apb_clk_freq), U64(divider(Entry, inst)))

\* C10: divider() maps the prescale field 0 to 65536, 1 and 2 to 2, and every
\* other n to n, on Timer0 and on Timer1; the result lies in 2..65536.
C10_DividerTotal ==
    ret.op = "divider" =>
        /\ ret.val = (IF treg[inst].divider = 0 THEN 65536
                      ELSE IF treg[inst].divider \in {1, 2} THEN 2
                      ELSE treg[inst].divider)
        /\ ret.val \in 2..65536
C10_Witness ==
    /\ ret.op = "divider" /\ inst = "T1"
    /\ treg[inst].divider = 1 /\ ret.val = 2

\* ---- properties of the watchdogs

\* the watchdog the last call was made on, and the kinds of the writes the call
\* made to the write-protect register of p
CalledWatchdog ==
    IF ret.op \in {"Rwdt::listen", "Rwdt::unlisten", "Rwdt::clear_interrupt",
                   "Rwdt::start", "Rwdt::feed", "Rwdt::disable"} THEN "rwdt"
    ELSE IF ret.op = "Swd::disable" THEN "swd"
    ELSE IF ret.op \in {"Wdt::disable", "Wdt::start", "Wdt::feed"} THEN ret.arg[1]
    ELSE "none"
WpKinds(p) == [i \in 1..Len(WpWrites(acc, p)) |-> WpKind(p, WpWrites(acc, p)[i])] \o <<>>
WpNow(p) == IF WpReg(p).blk = "rtc_cntl" THEN rtc_cntl[WpReg(p).reg] ELSE timg[p].wdtwprotect

\* C1: for each watchdog the writes to its write-protect register alternate
\* unlock, lock, unlock, lock over any sequence of calls: the last write before a
\* call, if there was one, was a lock; within a call the writes are unlock, lock
\* in turn and end with a lock; and when a call on a watchdog has returned its
\* write-protect register holds zero.
C1_WriteProtectAlternates ==
    \A p \in Watchdogs :
        /\ lastw[p].pre \in {"none", "lock"}
        /\ lastw[p].post \in {"none", "lock"}
        /\ \A i \in 1..Len(WpKinds(p)) :
              WpKinds(p)[i] = IF i % 2 = 1 THEN "unlock" ELSE "lock"
        /\ Len(WpKinds(p)) % 2 = 0
        /\ (p = CalledWatchdog /\ ~halted) =>
              (Len(WpKinds(p)) = 2 /\ lastw[p].post = "lock" /\ WpNow(p) = Locked)
C1_Witness ==
    /\ ret.op = "Rwdt::start"
    /\ lastw["rwdt"].pre = "lock"
    /\ WpKinds("rwdt") = <<"unlock", "lock">>
    /\ lastw["swd"].post = "lock"
    /\ lastw["timg0"].post = "lock"
    /\ rtc_cntl.wdtwprotect = Locked

\* C2: every write a watchdog call makes to a protected register (wdtconfig0,
\* wdtconfig1, wdtconfig2, wdtfeed, swd_conf) comes after a write of the unlock key
\* to the write-protect register of the same watchdog with no other write to that
\* register in between, and before the write of zero that locks it again.
C2_ProtectedWritesUnlocked ==
    \A i \in 1..Len(acc) :
        (acc[i][1] = "w" /\ Guard(acc[i][2], acc[i][3]).reg # "none") =>
            /\ \E j \in 1..(i - 1) :
                  /\ acc[j][1] = "w" /\ acc[j][2] = acc[i][2]
                  /\ acc[j][3] = Guard(acc[i][2], acc[i][3]).reg
                  /\ acc[j][4] = Guard(acc[i][2], acc[i][3]).key
                  /\ \A k \in (j + 1)..(i - 1) :
                        ~(acc[k][1] = "w" /\ acc[k][2] = acc[i][2]
                          /\ acc[k][3] = Guard(acc[i][2], acc[i][3]).reg)
            /\ \E j \in (i + 1)..Len(acc) :
                  /\ acc[j][1] = "w" /\ acc[j][2] = acc[i][2]
                  /\ acc[j][3] = Guard(acc[i][2], acc[i][3]).reg
                  /\ acc[j][4] = Locked
C2_Witness ==
    /\ ret.op = "Rwdt::start"
    /\ \E i, j \in 1..Len(acc) :
          /\ i < j
          /\ acc[i][1] = "w" /\ acc[i][2] = "rtc_cntl" /\ acc[i][3] = "wdtconfig1"
          /\ acc[j][1] = "w" /\ acc[j][2] = "rtc_cntl" /\ acc[j][3] = "wdtconfig0"
    /\ rtc_cntl.wdtconfig0.wdt_en
    /\ timg["timg0"].wdtconfig0.wdt_stg0 = 3

\* C3: every value written to a write-protect register is zero or the key of that
\* watchdog: 0x50D83AA1 for the RTC watchdog and the timer group watchdogs,
\* 0x8F1D312A for the super watchdog; neither key is written to the other's
\* register.
C3_OwnKeyOrZero ==
    /\ RwdtKey = <<15009, 20696>> /\ SwdKey = <<12586, 36637>> /\ WdtKey = RwdtKey
    /\ \A p \in Watchdogs : \A i \in 1..Len(WpWrites(acc, p)) :
          WpWrites(acc, p)[i] \in {Locked, WpReg(p).key}
C3_Witness ==
    /\ ret.op = "Swd::disable"
    /\ WpWrites(acc, "swd") = <<SwdKey, Locked>>
    /\ lastw["rwdt"].post = "lock"
    /\ rtc_cntl.swd_conf.swd_auto_feed_en

\* the registers written by the accesses a
Written(a) == {<<a[i][2], a[i][3]>> : i \in {j \in 1..Len(a) : a[j][1] = "w"}}

\* C16: feed() on the RTC watchdog leaves the stored stage actions, wdtconfig0
\* (stage actions, enable bit), the stage 0 timeout and the interrupt enable bit
\* as they were, and writes the write-protect and feed registers only; listen()
\* leaves the stage 0 action Interrupt in the object and in wdt_stg0, so that it
\* is still Interrupt after any number of feeds.
C16_FeedKeepsStages ==
    [][/\ ret'.op = "Rwdt::feed" =>
              /\ rwdt' = rwdt
              /\ rtc_cntl'.wdtconfig0 = rtc_cntl.wdtconfig0
              /\ rtc_cntl'.wdtconfig1 = rtc_cntl.wdtconfig1
              /\ rtc_cntl'.int_ena = rtc_cntl.int_ena
              /\ Written(acc') = {<<"rtc_cntl", "wdtwprotect">>, <<"rtc_cntl", "wdtfeed">>}
       /\ ret'.op = "Rwdt::listen" =>
              /\ rwdt'.stg0_action = RwdtStageActionInterrupt
              /\ rtc_cntl'.wdtconfig0.wdt_stg0 = RwdtStageActionInterrupt
      ]_vars
C16_Witness ==
    /\ ret.op = "Rwdt::feed" /\ lastw["rwdt"].pre = "lock"
    /\ rwdt.stg0_action = RwdtStageActionInterrupt
    /\ rtc_cntl.wdtconfig0.wdt_stg0 = RwdtStageActionInterrupt
    /\ rtc_cntl.wdtconfig0.wdt_en /\ rtc_cntl.int_ena.wdt_int_ena

\* C17: the stage 0 action of the RTC watchdog is Interrupt exactly when the
\* watchdog interrupt is enabled, and ResetRtc otherwise; wdt_stg0 holds the
\* stored action once it has been written; listen() makes the action Interrupt,
\* unlisten() makes it ResetRtc, and no other call changes the action or the
\* interrupt enable bit.
C17_InterruptXorReset ==
    /\ [](/\ rwdt.stg0_action \in {RwdtStageActionInterrupt, RwdtStageActionResetRtc}
          /\ (rwdt.stg0_action = RwdtStageActionInterrupt) <=> rtc_cntl.int_ena.wdt_int_ena
          /\ rtc_cntl.wdtconfig0.wdt_stg0 \in {RwdtStageActionOff, rwdt.stg0_action})
    /\ [][/\ ret'.op = "Rwdt::listen" => rwdt'.stg0_action = RwdtStageActionInterrupt
          /\ ret'.op = "Rwdt::unlisten" => rwdt'.stg0_action = RwdtStageActionResetRtc
          /\ ret'.op \notin {"Rwdt::listen", "Rwdt::unlisten"} =>
                 (rwdt' = rwdt /\ rtc_cntl'.int_ena = rtc_cntl.int_ena)
         ]_vars
C17_Witness ==
    /\ ret.op = "Rwdt::unlisten" /\ rtc_cntl.int_raw.wdt_int_raw
    /\ rwdt.stg0_action = RwdtStageActionResetRtc
    /\ rtc_cntl.wdtconfig0.wdt_stg0 = RwdtStageActionResetRtc
    /\ ~rtc_cntl.int_ena.wdt_int_ena /\ rtc_cntl.wdtconfig0.wdt_en

\* C18: Rwdt::disable() clears wdt_en and wdt_flashboot_mod_en and leaves the
\* rest of wdtconfig0, the stage 0 timeout, the interrupt enable bit and the
\* stored actions alone; only start() sets wdt_en again; Wdt::disable() leaves
\* the enable bit of its timer group clear.
C18_DisableFrame ==
    [][/\ ret'.op = "Rwdt::disable" =>
              /\ rtc_cntl'.wdtconfig0 = [rtc_cntl.wdtconfig0 EXCEPT !.wdt_en = FALSE,
                                                                    !.wdt_flashboot_mod_en = FALSE]
              /\ rtc_cntl'.wdtconfig1 = rtc_cntl.wdtconfig1
              /\ rtc_cntl'.int_ena = rtc_cntl.int_ena
              /\ rwdt' = rwdt
       /\ (rtc_cntl'.wdtconfig0.wdt_en /\ ~rtc_cntl.wdtconfig0.wdt_en) => ret'.op = "Rwdt::start"
       /\ ret'.op = "Wdt::disable" => ~timg'[ret'.arg[1]].wdtconfig0.wdt_en
      ]_vars
C18_Witness ==
    /\ ret.op = "Rwdt::feed"
    /\ ~rtc_cntl.wdtconfig0.wdt_en /\ ~rtc_cntl.wdtconfig0.wdt_flashboot_mod_en
    /\ rtc_cntl.wdtconfig0.wdt_stg0 = RwdtStageActionInterrupt
    /\ rtc_cntl.wdtconfig0.wdt_sys_reset_length = 7
    /\ rtc_cntl.int_ena.wdt_int_ena
    /\ ~timg["timg0"].wdtconfig0.wdt_en /\ ~timg["timg0"].wdtconfig0.wdt_flashboot_mod_en

\* C19: Wdt::start(period) leaves in wdt_stg0_hold the number period_ns * 10 / 125
\* itself, prescale 1, stage 0 action 3, stages 1 to 3 off, both reset lengths 1
\* and the enable bit set, and reads or writes no calibration register.
C19_WdtStartExact ==
    ret.op = "Wdt::start" =>
        /\ BExt(timg[ret.arg[1]].wdtconfig2.wdt_stg0_hold, 4)
               = BDiv(BMul(BMul(ret.arg[2], U64(1000)), U64(10)), U64(125))
        /\ timg[ret.arg[1]].wdtconfig1.wdt_clk_prescale = 1
        /\ timg[ret.arg[1]].wdtconfig0.wdt_en
        /\ timg[ret.arg[1]].wdtconfig0.wdt_stg0 = 3
        /\ timg[ret.arg[1]].wdtconfig0.wdt_stg1 = 0
        /\ timg[ret.arg[1]].wdtconfig0.wdt_stg2 = 0
        /\ timg[ret.arg[1]].wdtconfig0.wdt_stg3 = 0
        /\ timg[ret.arg[1]].wdtconfig0.wdt_cpu_reset_length = 1
        /\ timg[ret.arg[1]].wdtconfig0.wdt_sys_reset_length = 1
        /\ \A i \in 1..Len(acc) : acc[i][1] \in {"r", "w"} /\ acc[i][3] \notin
               {"rtccalicfg", "rtccalicfg1", "rtccalicfg2", "clk_conf", "store4"}

\* ---- properties of the RTC clock

\* what the last call of calibrate_internal had from the calibration unit: the
\* count it read after seeing rtc_cali_rdy, or 0 after a timeout
ReadyObserved == \E i \in 1..Len(acc) : acc[i] = RegRd("timg0", "rtccalicfg1")
RawCount == IF ReadyObserved THEN cali.value ELSE 0
Window == ret.arg[2]
XtalMhz == rtc_cntl.store4[1]

\* C11 as stated: when the unit reports k * W crystal cycles for a window of W,
\* get_calibration_ratio returns the number k << 19 itself, however large.
C11_RatioIsShiftedK ==
    (ret.op = "get_calibration_ratio" /\ ReadyObserved /\ RawCount % Window = 0) =>
        (~halted /\ BExt(ret.val, 4) = BShl(U64(RawCount \div Window), 19))
\* C11: when the unit reports k * W crystal cycles for a window of W > 0,
\* get_calibration_ratio returns the low 32 bits of k << 19, which is k << 19
\* itself when k < 2^13.
C11_RatioIsShiftedKMod32 ==
    (ret.op = "get_calibration_ratio" /\ ReadyObserved /\ RawCount % Window = 0) =>
        /\ ~halted
        /\ ret.val = BExt(BShl(U64(RawCount \div Window), 19), 2)
        /\ RawCount \div Window < 2^13 =>
               BExt(ret.val, 4) = BShl(U64(RawCount \div Window), 19)
C11_Witness ==
    /\ ret.op = "get_calibration_ratio" /\ ReadyObserved
    /\ Window = 1 /\ RawCount = 8192 /\ ret.val = Word(0)

\* C12: when calibrate_internal gives 0, get_calibration_ratio returns 0 and
\* calibrate returns 0, for every window W >= 1 and every crystal frequency.
C12_ZeroStaysZero ==
    (ret.op \in {"get_calibration_ratio", "calibrate"} /\ RawCount = 0) =>
        (~halted /\ ret.val = Word(0))

\* C13: calibrate returns ((raw << 19) + divisor / 2) / divisor, cut to 32 bits,
\* with divisor = xtal_mhz * W >= 1.
C13_PeriodRoundsToNearest ==
    ret.op = "calibrate" =>
        /\ ~halted
        /\ ret.val = BExt(BDiv(BAdd(BShl(U64(RawCount), 19), U64((XtalMhz * Window) \div 2)),
                               U64(XtalMhz * Window)), 2)

\* C14: calibrate_internal returns 0 exactly when it timed out: the count it
\* returns after seeing the ready flag is never 0.
C14_ZeroOnlyOnTimeout ==
    ret.op = "calibrate_internal" => (~halted /\ (ret.val = Word(0) <=> ~ReadyObserved))

\* C20: estimate_xtal_frequency() leaves enb_ck8m and enb_ck8m_div as it found
\* them, whether the calibration completed or timed out.
C20_OscillatorRestored ==
    [][ret'.op = "estimate_xtal_frequency" =>
          /\ rtc_cntl'.clk_conf.enb_ck8m = rtc_cntl.clk_conf.enb_ck8m
          /\ rtc_cntl'.clk_conf.enb_ck8m_div = rtc_cntl.clk_conf.enb_ck8m_div
          /\ rtc_cntl'.clk_conf.dig_clk8m_d256_en = FALSE
      ]_vars
C20_Witness ==
    /\ ret.op = "estimate_xtal_frequency" /\ ~ReadyObserved
    /\ rtc_cntl.clk_conf.enb_ck8m /\ rtc_cntl.clk_conf.enb_ck8m_div
    /\ \E i \in 1..Len(acc) : acc[i] = Delay(50)

\* C15: calibrate_internal always returns. On the ESP32 the poll loop sleeps at
\* most us_time_estimate times for a microsecond, whatever the unit does, and a
\* call that returns without the ready flag returns 0; on every chip a call
\* that has been entered leaves the wait for a running calibration and the poll
\* loop, and returns.
PollBound ==
    /\ pc.at = "wait" => chip # "esp32"
    /\ chip = "esp32" /\ pc.at = "poll"
          => pc.polls + pc.timeout_us = us_time_estimate(chip, pc.cal, pc.cycles)
    /\ ret.op = "calibrate_internal" /\ ~cali.rdy => ret.val = Word(0)
C15_CalibrationTerminates ==
    /\ []PollBound
    /\ (pc.at = "wait") ~> (pc.at = "poll")
    /\ (pc.at # "idle") ~> (pc.at = "idle" /\ ret.op = "calibrate_internal")
\* the ESP32 has counted its estimate down and returned 0 without the ready flag
C15_Witness ==
    /\ chip = "esp32" /\ ret.op = "calibrate_internal" /\ ret.arg = <<RtcCal32kXtal, 10>>
    /\ ~cali.rdy /\ ret.val = Word(0) /\ pc = CalIdle

\* ---- properties of the constructors

\* C21: no unit ever has two live driver instances: whatever constructors and
\* destructors are called, each timer, each timer group watchdog, the RTC
\* watchdog and the super watchdog is addressed by at most one instance.
C21_OneInstancePerUnit == \A x \in DOMAIN live.n : live.n[x] <= 1

\* ---- properties of calibrate_internal

\* the target the last call armed, and the clk_conf writes of the call
Armed == timg.timg0.rtccalicfg.rtc_cali_clk_sel
ClkConfWrites ==
    {acc[i][4] : i \in {j \in 1..Len(acc) : acc[j][1] = "w" /\ acc[j][3] = "clk_conf"}}

\* C22: calibrate_internal leaves dig_xtal32k_en as it found it, on every chip,
\* for every target, whether the calibration unit became ready or timed out.
C22_Xtal32kRestored ==
    [][ret'.op = "calibrate_internal"
          => rtc_cntl'.clk_conf.dig_xtal32k_en = rtc_cntl.clk_conf.dig_xtal32k_en]_vars
\* a call that timed out had connected the crystal, and it is off again
C22_Witness ==
    /\ ret.op = "calibrate_internal" /\ Armed = RtcCal32kXtal /\ ~ReadyObserved
    /\ \E w \in ClkConfWrites : w.dig_xtal32k_en
    /\ ~rtc_cntl.clk_conf.dig_xtal32k_en

\* C23: when the 8M/256 clock is the target, calibrate_internal leaves
\* dig_clk8m_d256_en as it found it, were it on or off before the call.
C23_Divided8mRestored ==
    [][ret'.op = "calibrate_internal" /\ timg'.timg0.rtccalicfg.rtc_cali_clk_sel = RtcCal8mD256
          => rtc_cntl'.clk_conf.dig_clk8m_d256_en = rtc_cntl.clk_conf.dig_clk8m_d256_en]_vars

\* C28: the target armed is the one requested on the ESP32; elsewhere
\* RtcCalRtcMux stands for the slow clock in use (the 32 kHz crystal, the 8M/256
\* clock, or RtcCalRtcMux itself for the RC oscillator), RtcCalInternalOsc is
\* armed as RtcCalRtcMux, and the other two are armed as requested. The driver
\* sleeps for the window at the nominal frequency of the clock of the target armed.
Resolved(c, cal_clk, slow) ==
    IF c = "esp32" THEN cal_clk
    ELSE IF cal_clk = RtcCalInternalOsc THEN RtcCalRtcMux
    ELSE IF cal_clk # RtcCalRtcMux THEN cal_clk
    ELSE IF slow = RtcSlowClock32kXtal THEN RtcCal32kXtal
    ELSE IF slow = RtcSlowClock8mD256 THEN RtcCal8mD256
    ELSE RtcCalRtcMux
Nominal(c, cal) ==
    IF cal = RtcCal32kXtal THEN 32768
    ELSE IF cal = RtcCal8mD256 THEN (IF c = "esp32c3" THEN 68359 ELSE 33203)
    ELSE IF c = "esp32" THEN 150000 ELSE IF c = "esp32s2" THEN 90000 ELSE 136000
C28_TargetResolved ==
    ret.op = "calibrate_internal" =>
        /\ Armed = Resolved(chip, ret.arg[1], rtc_cntl.clk_conf.ana_clk_rtc_sel)
        /\ \E i \in 1..Len(acc) :
              /\ acc[i][1] = "delay"
              /\ acc[i] = Delay((ret.arg[2] * 1000000) \div Nominal(chip, Armed))
              /\ acc[i - 1][1] = "w" /\ acc[i - 1][3] = "rtccalicfg"
              /\ acc[i - 1][4].rtc_cali_start
\* off the ESP32 the slow clock in use, the 8M/256 clock, has been measured in
\* place of RtcCalRtcMux
C28_Witness ==
    /\ ret.op = "calibrate_internal" /\ chip = "esp32c3" /\ ret.arg = <<RtcCalRtcMux, 1024>>
    /\ Armed = RtcCal8mD256
    /\ \E i \in 1..Len(acc) : acc[i][1] = "delay" /\ acc[i] = Delay(14979)

\* C24: a calibration that timed out is not used as a measurement: a start() of
\* the RTC watchdog whose calibration timed out does not write a stage 0 timeout
\* derived from the period of 0.
C24_TimeoutNotUsed ==
    ret.op = "Rwdt::start" /\ ~ReadyObserved /\ ~halted
        => <<"rtc_cntl", "wdtconfig1">> \notin Written(acc)

\* C25: the Rwdt keeps stages 1 to 3 Off and stage 0 Interrupt or ResetRtc,
\* whatever is called; start() writes wdtconfig0 once, with the four stage
\* actions of the object, reset lengths of 7 and the enable bit, so that stage 0
\* is Interrupt after start() exactly when listen() was the last of listen() and
\* unlisten(), also when the watchdog was disabled in between.
C25_StartWritesAllStages ==
    /\ rwdt.stg0_action \in {RwdtStageActionInterrupt, RwdtStageActionResetRtc}
    /\ rwdt.stg1_action = RwdtStageActionOff
    /\ rwdt.stg2_action = RwdtStageActionOff
    /\ rwdt.stg3_action = RwdtStageActionOff
    /\ ret.op = "Rwdt::start" /\ ~halted =>
          /\ Cardinality({i \in 1..Len(acc) : acc[i][1] = "w" /\ acc[i][2] = "rtc_cntl"
                                               /\ acc[i][3] = "wdtconfig0"}) = 1
          /\ rtc_cntl.wdtconfig0.wdt_en
          /\ rtc_cntl.wdtconfig0.wdt_cpu_reset_length = 7
          /\ rtc_cntl.wdtconfig0.wdt_sys_reset_length = 7
          /\ rtc_cntl.wdtconfig0.wdt_stg0 = rwdt.stg0_action
          /\ rtc_cntl.wdtconfig0.wdt_stg0 = RwdtStageActionInterrupt
                <=> rtc_cntl.int_ena.wdt_int_ena
          /\ rtc_cntl.wdtconfig0.wdt_stg1 = RwdtStageActionOff
          /\ rtc_cntl.wdtconfig0.wdt_stg2 = RwdtStageActionOff
          /\ rtc_cntl.wdtconfig0.wdt_stg3 = RwdtStageActionOff
\* start() has enabled a watchdog in interrupt mode that was disabled before
C25_Witness ==
    /\ ret.op = "Rwdt::start" /\ ~halted
    /\ rtc_cntl.wdtconfig0.wdt_en
    /\ ~rtc_cntl.wdtconfig0.wdt_flashboot_mod_en
    /\ rtc_cntl.wdtconfig0.wdt_stg0 = RwdtStageActionInterrupt
    /\ rtc_cntl.int_ena.wdt_int_ena

\* the accesses of the last call: a write of a write-protect register, one that
\* unlocks, and an access that is none of a watchdog operation's own (a delay, a
\* poll loop, or an access to a register of the calibration)
IsWp(x) == x[1] = "w" /\ x[3] \in {"wdtwprotect", "swd_wprotect"}
IsUnlock(x) == IsWp(x) /\ x[4] # Locked
IsForeign(x) ==
    \/ x[1] \in {"delay", "repeat"}
    \/ x[1] \in {"r", "w"}
          /\ x[3] \in {"rtccalicfg", "rtccalicfg1", "rtccalicfg2", "clk_conf", "store4", "timer1"}
\* the registers are unlocked when access k is made
UnlockedAt(k) ==
    \E i \in 1..(k - 1) : IsUnlock(acc[i]) /\ \A j \in (i + 1)..(k - 1) : ~IsWp(acc[j])

\* C26: no watchdog operation delays, polls or touches a calibration register
\* while it has the registers unlocked; in start() of the RTC watchdog the whole
\* calibration comes before the unlock, and every window is closed on return.
C26_UnlockedWindowOwnWrites ==
    /\ \A k \in 1..Len(acc) : IsForeign(acc[k]) => ~UnlockedAt(k)
    /\ ~UnlockedAt(Len(acc) + 1)
    /\ ret.op = "Rwdt::start" /\ ~halted =>
          \E u \in 1..Len(acc) :
              /\ IsUnlock(acc[u])
              /\ \A k \in 1..Len(acc) : IsForeign(acc[k]) => k < u
              /\ \A k \in 1..Len(acc) : IsWp(acc[k]) => k >= u
\* start() has polled the calibration unit in vain and then unlocked
C26_Witness ==
    /\ ret.op = "Rwdt::start" /\ ~ReadyObserved
    /\ \E k \in 1..Len(acc) : acc[k][1] = "repeat"
    /\ \E k \in 1..Len(acc) : IsUnlock(acc[k])

\* the register writes of the last call, in order, and their registers and fields
Writes == SelectSeq(acc, LAMBDA x : x[1] = "w")
WriteFields == [i \in 1..Len(Writes) |-> <<Writes[i][3], Writes[i][4]>>]

\* C27: start() writes, in this order and whatever the timer was doing: counter
\* enable off, alarm enable off, the load registers 0 and the load trigger, the
\* alarm value, count up, auto-reload on, counter enable on, alarm enable on;
\* on return counter and alarm are on, the counter counts up with auto-reload
\* and stands at 0.
C27_StartOrder ==
    ret.op = "start" =>
        /\ WriteFields = <<<<"config", "en">>, <<"config", "alarm_en">>,
                           <<"loadlo", "load_lo">>, <<"loadhi", "load_hi">>, <<"load", "load">>,
                           <<"alarmlo", "alarm_lo">>, <<"alarmhi", "alarm_hi">>,
                           <<"config", "increase">>, <<"config", "autoreload">>,
                           <<"config", "en">>, <<"config", "alarm_en">>>>
        /\ \A i \in 1..Len(Writes) : Writes[i][2] = inst
        /\ ~Writes[1][5] /\ ~Writes[2][5]
        /\ Writes[3][5] = Word(0) /\ Writes[4][5] = Word(0) /\ Writes[5][5] = Word(1)
        /\ Writes[6][5] = treg[inst].alarm_lo /\ Writes[7][5] = treg[inst].alarm_hi
        /\ Writes[8][5] /\ Writes[9][5] /\ Writes[10][5] /\ Writes[11][5]
        /\ treg[inst].en /\ treg[inst].alarm_en
        /\ treg[inst].increase /\ treg[inst].autoreload
        /\ treg[inst].cnt = U64(0)
\* a timer whose alarm had fired, with no wait() to claim it, has been started again
C27_Witness ==
    /\ ret.op = "start" /\ tint.raw[inst] /\ okCancels = 0 /\ unclaimed > 0
    /\ treg[inst].en /\ treg[inst].cnt = U64(0)

\* C29: load_alarm_value(v) with v < 2^56 leaves v in the alarm registers:
\* (alarm_hi << 32) | alarm_lo = v, on Timer0 and on Timer1.
C29_AlarmHolds56Bits == ret.op = "load_alarm_value" => AlarmValue(inst) = ret.arg

\* what the driver and the hardware keep for a unit: its registers and its bits
\* of the shared interrupt registers
UnitState(t, raw, ena, u) == <<t[u], raw[u], ena[u]>>
\* an operation on unit a and the same operation on unit b give the same result
\* and leave the same in the unit's registers
SameOn(ra, a, rb, b) ==
    /\ ra.val = rb.val
    /\ UnitState(ra.s.t, ra.s.raw, ra.s.ena, a) = UnitState(rb.s.t, rb.s.raw, rb.s.ena, b)
Unit(s) == [s |-> s, val |-> "Unit"]

C31_PeriodicProgress == [](started => <>(ret.op = "wait" /\ ret.val = "Ok"))
\* wait() has answered Ok after an alarm that reloaded the counter: the alarm is
\* enabled again and the counter is on its way to the next match
C31_Witness ==
    /\ started /\ ret.op = "wait" /\ ret.val = "Ok"
    /\ treg[inst].en /\ treg[inst].alarm_en /\ ~tint.raw[inst]
    /\ BGt(treg[inst].alarm_lo \o treg[inst].alarm_hi, treg[inst].cnt)

====
